---- MODULE Spec2Model ----
(***************************************************************************)
(* A model of the distirc core: the IRC message router, the buffers of a   *)
(* network, the update handle, the per-user client fan-out and the         *)
(* per-client scrollback cursors.                                          *)
(*                                                                         *)
(* Strings are sequences of one-character strings; Option<T> is a sequence *)
(* of length 0 (None) or 1 (Some).                                         *)
(***************************************************************************)
EXTENDS Integers, Sequences, FiniteSets, TLC

VARIABLES
    \* router harness: the message and nick handed to route_message, its result
    rmsg, rnick, rres,
    \* CTCP harness: the tag and arguments of a CTCP message, what
    \* CtcpMsg::from_str makes of its string, and what Display makes of that
    cin, cmsg, cfmt,
    \* buffer harness: one Buffer, the nick, the update handle it writes to
    hbuf, hnick, hu, hcmds, hlast, hsince,
    \* handle harness: a base update handle, the closures of the handles
    \* wrapped around it, innermost first, and the calls made on the innermost
    wu, wws, wcalls,
    \* log harness: one Buffer over the runs of the core, the time, the days
    \* whose log file the Buffer has read since it was constructed, and the
    \* last call of get_line
    lbuf, lnow, lreads, lgot,
    \* network harness: one IrcNetwork, the channel of its IrcSender, whether
    \* the receiving end of that channel is alive, whether the build has debug
    \* assertions, whether a call has panicked, the last call and its outcome,
    \* and the number of calls made
    nnet, nq, nalive, ndebug, npanic, nlast, ncount,
    \* the IRC connection of the network harness: whether a wakeup notification
    \* is pending, the sendq of its IrcConnection, the messages written to its
    \* transport, and the messages IrcNetwork::send has returned Ok for
    nwake, nsendq, nout, nacc,
    \* the core: the user's networks, the log directories found on disk when a
    \* buffer is created, the clock, and whether a handler has panicked
    nets, disk, clock, crashed,
    \* the IRC connection machines: their state, the channel from each
    \* network's IrcSender, and the messages written to each IRC socket
    conn, ircq, ircOut,
    \* the UserHandle: its clients, its alerts, whether cfg.alert_cmd is set and
    \* the alerts handed to the alert command
    uclients, ualerts, alertCmd, spawned,
    \* the client machines: their state and cursors, the channel from the
    \* UserHandle to each, and the messages written to each client socket
    cl, chan, wire,
    \* history: the last update handle executed, the FetchLogs requests served,
    \* the front lengths of the buffers when each client registered, and the
    \* events of the IRC connection machines of each network
    lastExec, fetches, attachedAt, ircHist

----------------------------------------------------------------------------
(* Bounds *)

\* the largest number of arguments of an IRC message the router is handed
MaxArgs == 3
\* the number of IRC commands a buffer is handed in the buffer harness
MaxCmds == 3
\* the lines pushed to the buffer of the log harness over all its runs, the
\* last day it runs on, and the log files a Buffer reads in one run
MaxPushes == 3
MaxLogDay == 3
MaxReads == 4
\* the calls made on the network of the network harness
MaxNetOps == 2
\* the number of IRC messages the core receives
MaxLines == 2
\* the number of FetchLogs requests the clients send
MaxFetch == 3
\* the number of FetchLogs requests a client sends while lines are pushed
MaxLiveFetch == 2
\* the largest count of a FetchLogs request
MaxCount == 2
\* the number of days before today that may have a log file
MaxDays == 2
\* the number of failed authentications of a client
MaxAuthErr == 1
\* the messages handed to IrcNetwork::send and the PINGs received in the
\* sender harness
MaxSends == 3
MaxPings == 1
\* the handles wrapped around a base handle and the calls made on the
\* innermost of them
MaxWrapDepth == 2
MaxWrapCalls == 3
MaxCtcpArgs == 2

----------------------------------------------------------------------------
(* Strings *)

None == << >>
Some(x) == << x >>
IsSome(o) == Len(o) > 0
Unwrap(o) == o[1]

\* the CTCP delimiter, "\u{1}"
Delim == "SOH"

\* str::starts_with
StartsWith(s, p) ==
    /\ Len(s) >= Len(p)
    /\ SubSeq(s, 1, Len(p)) = p

\* str::contains
Contains(s, p) ==
    \E i \in 0..(Len(s) - Len(p)) : SubSeq(s, i + 1, i + Len(p)) = p

\* str::find(char): the 0-based index of the first occurrence, -1 for None
Find(s, ch) ==
    IF \E i \in 1..Len(s) : s[i] = ch
    THEN (CHOOSE i \in 1..Len(s) : s[i] = ch /\ \A j \in 1..(i - 1) : s[j] # ch) - 1
    ELSE -1

\* &s[from..to] with 0-based, end-exclusive bounds
Slice(s, from, to) == SubSeq(s, from + 1, to)

\* str::split(char): the pieces between occurrences of ch (always at least one)
RECURSIVE Split(_, _)
Split(s, ch) ==
    LET i == Find(s, ch)
    IN  IF i = -1 THEN << s >>
        ELSE << Slice(s, 0, i) >> \o Split(Slice(s, i + 1, Len(s)), ch)

\* [String]::join(sep)
RECURSIVE Join(_, _)
Join(parts, sep) ==
    IF Len(parts) = 0 THEN << >>
    ELSE IF Len(parts) = 1 THEN parts[1]
    ELSE parts[1] \o sep \o Join(Tail(parts), sep)

\* char::to_ascii_uppercase on the letters the model uses
UpperChar(c) ==
    CASE c = "a" -> "A" [] c = "c" -> "C" [] c = "t" -> "T" [] c = "i" -> "I"
      [] c = "o" -> "O" [] c = "n" -> "N" [] c = "b" -> "B" [] c = "h" -> "H"
      [] c = "v" -> "V" [] OTHER -> c

\* str::to_ascii_uppercase
ToAsciiUppercase(s) == [i \in 1..Len(s) |-> UpperChar(s[i])]

----------------------------------------------------------------------------
(* common/src/line.rs: senders *)

\* Sender::parse_prefix. The slice &pfx[nick_end+1..ident_end] panics when the
\* first '@' lies before the first '!'.
ParsePrefix(pfx) ==
    LET nick_end == Find(pfx, "!")
        ident_end == Find(pfx, "@")
    IN  IF nick_end # -1 /\ ident_end # -1
        THEN IF nick_end + 1 > ident_end
             THEN [t |-> "Panic"]
             ELSE [t |-> "User",
                   nick |-> Slice(pfx, 0, nick_end),
                   ident |-> Slice(pfx, nick_end + 1, ident_end),
                   host |-> Slice(pfx, ident_end + 1, Len(pfx))]
        ELSE [t |-> "Server", name |-> pfx]

\* the User carried by a Sender::User
UserOf(sender) == [nick |-> sender.nick, ident |-> sender.ident, host |-> sender.host]

\* Sender::name
SenderName(sender) == IF sender.t = "Server" THEN sender.name ELSE sender.nick

----------------------------------------------------------------------------
(* src/network/routing.rs: the router *)

\* the numeric replies (Command::Response) the model hands to the router
Responses ==
    {"RPL_WELCOME", "RPL_MYINFO", "RPL_NAMREPLY", "RPL_ENDOFNAMES",
     "RPL_MOTDSTART", "RPL_MOTD", "RPL_ENDOFMOTD", "RPL_TOPIC"}

S_ACTION == << "A", "C", "T", "I", "O", "N" >>
S_VERSION == << "V", "E", "R", "S", "I", "O", "N" >>

RoutedNone == [t |-> "None"]
RoutedPanic == [t |-> "Panic"]

\* route_target (the mutant routes a message for the own nick to a channel)
RouteTargetNoPrivate(targ, user, cur_nick, cmd) ==
    [t |-> "Channel", chan |-> targ, cmd |-> cmd]

\* route_target
RouteTarget(targ, user, cur_nick, cmd) ==
    IF cur_nick = targ
    THEN [t |-> "Private", user |-> user, cmd |-> cmd]
    ELSE [t |-> "Channel", chan |-> targ, cmd |-> cmd]

\* CtcpMsg::from_str
CtcpFromStr(s) ==
    IF ~StartsWith(s, << Delim >>) THEN [ok |-> FALSE]
    ELSE LET s1 == Slice(s, 1, Len(s))
             end == IF Find(s1, Delim) = -1 THEN Len(s1) ELSE Find(s1, Delim)
             parts == Split(Slice(s1, 0, end), " ")
         IN  [ok |-> TRUE,
              tag |-> ToAsciiUppercase(parts[1]),
              args |-> Tail(parts)]

\* CtcpMsg's Display (without the surrounding delimiters)
RECURSIVE CtcpArgsFmt(_)
CtcpArgsFmt(args) ==
    IF Len(args) = 0 THEN << >>
    ELSE << " " >> \o args[1] \o CtcpArgsFmt(Tail(args))

CtcpFmt(m) == m.tag \o CtcpArgsFmt(m.args)

\* route_ctcp_msg without its ACTION arm: every CTCP message goes to the network
RouteCtcpMsgNoAction(targ, user, cur_nick, cmd, msg) ==
    LET p == CtcpFromStr(msg)
    IN  IF ~p.ok THEN RoutedNone
        ELSE [t |-> "Network",
              cmd |-> [c |-> "CtcpQuery", user |-> user, dest |-> targ,
                       ctcp |-> [tag |-> p.tag, args |-> p.args]]]

\* route_ctcp_msg; cmd is the carrying command, "PRIVMSG" or "NOTICE"
RouteCtcpMsg(targ, user, cur_nick, cmd, msg) ==
    LET p == CtcpFromStr(msg)
    IN  IF ~p.ok THEN RoutedNone
        ELSE IF ToAsciiUppercase(p.tag) = S_ACTION
        THEN RouteTarget(targ, user, cur_nick,
                         [c |-> "ACTION", user |-> user, msg |-> Join(p.args, << " " >>)])
        ELSE LET ctcp == [tag |-> p.tag, args |-> p.args]
             IN  IF cmd = "PRIVMSG"
                 THEN [t |-> "Network",
                       cmd |-> [c |-> "CtcpQuery", user |-> user, dest |-> targ, ctcp |-> ctcp]]
                 ELSE [t |-> "Network",
                       cmd |-> [c |-> "CtcpQuery", user |-> user, dest |-> targ, ctcp |-> ctcp]]

\* route_message once the sender has been parsed (the match on msg.command)
RouteCommand(msg, sender, cur_nick) ==
    LET argc == Len(msg.args)
        hasBody == IsSome(msg.body)
        isUser == IsSome(sender) /\ Unwrap(sender).t = "User"
        user == UserOf(Unwrap(sender))
    IN  CASE msg.command = "JOIN" ->
               IF argc = 1
               THEN IF ~isUser THEN RoutedNone
                    ELSE RouteTarget(msg.args[1], user, cur_nick, [c |-> "JOIN", user |-> user])
               ELSE IF hasBody
               THEN IF ~isUser THEN RoutedNone
                    ELSE RouteTarget(Unwrap(msg.body), user, cur_nick, [c |-> "JOIN", user |-> user])
               ELSE RoutedNone
          [] msg.command = "PART" ->
               IF argc = 1
               THEN IF ~isUser THEN RoutedNone
                    ELSE RouteTarget(msg.args[1], user, cur_nick,
                                     [c |-> "PART", user |-> user, reason |-> msg.body])
               ELSE RoutedNone
          [] msg.command = "KICK" ->
               IF argc = 2
               THEN IF ~isUser THEN RoutedNone
                    ELSE RouteTarget(msg.args[1], user, cur_nick,
                                     [c |-> "KICK", by |-> user, targ |-> msg.args[2],
                                      reason |-> msg.body])
               ELSE RoutedNone
          [] msg.command = "PRIVMSG" ->
               IF argc = 1 /\ hasBody
               THEN IF ~isUser THEN RoutedNone
                    ELSE IF StartsWith(Unwrap(msg.body), << Delim >>)
                    THEN RouteCtcpMsg(msg.args[1], user, cur_nick, "PRIVMSG", Unwrap(msg.body))
                    ELSE RouteTarget(msg.args[1], user, cur_nick,
                                     [c |-> "PRIVMSG", user |-> user, msg |-> Unwrap(msg.body)])
               ELSE RoutedNone
          [] msg.command = "NOTICE" ->
               IF argc = 1 /\ hasBody
               THEN IF ~IsSome(sender) THEN RoutedNone
                    ELSE IF StartsWith(Unwrap(msg.body), << Delim >>)
                    THEN IF isUser
                         THEN RouteCtcpMsg(msg.args[1], user, cur_nick, "NOTICE", Unwrap(msg.body))
                         ELSE RoutedNone
                    ELSE LET bc == [c |-> "NOTICE", sender |-> Unwrap(sender),
                                    msg |-> Unwrap(msg.body)]
                         IN  IF isUser
                             THEN RouteTarget(msg.args[1], user, cur_nick, bc)
                             ELSE [t |-> "NetBuffer", cmd |-> bc]
               ELSE RoutedNone
          [] msg.command = "QUIT" ->
               IF ~isUser THEN RoutedNone
               ELSE [t |-> "Network", cmd |-> [c |-> "QUIT", user |-> user, reason |-> msg.body]]
          [] msg.command = "NICK" ->
               IF argc = 1
               THEN IF ~isUser THEN RoutedNone
                    ELSE [t |-> "Network",
                          cmd |-> [c |-> "NICK", user |-> user, new |-> msg.args[1]]]
               ELSE RoutedNone
          [] msg.command = "RPL_NAMREPLY" ->
               IF argc = 3 /\ hasBody
               THEN [t |-> "Channel", chan |-> msg.args[3],
                     cmd |-> [c |-> "RPL_NAMREPLY", body |-> Unwrap(msg.body)]]
               ELSE RoutedNone
          [] msg.command = "RPL_ENDOFNAMES" ->
               IF argc >= 1
               THEN \* msg.args[1] of the source: the second argument, out of
                    \* bounds when there is exactly one
                    IF argc < 2 THEN RoutedPanic
                    ELSE [t |-> "Channel", chan |-> msg.args[2],
                          cmd |-> [c |-> "RPL_ENDOFNAMES"]]
               ELSE RoutedNone
          [] msg.command = "RPL_MYINFO" ->
               IF argc >= 1
               THEN [t |-> "Network", cmd |-> [c |-> "RPL_MYINFO", nick |-> msg.args[1]]]
               ELSE RoutedNone
          [] msg.command \in {"RPL_MOTDSTART", "RPL_ENDOFMOTD", "RPL_MOTD"} ->
               IF hasBody
               THEN [t |-> "NetBuffer", cmd |-> [c |-> "RPL_MOTD", msg |-> Unwrap(msg.body)]]
               ELSE RoutedNone
          [] msg.command \in Responses
               /\ msg.command \notin {"RPL_NAMREPLY", "RPL_ENDOFNAMES", "RPL_MYINFO",
                                      "RPL_MOTDSTART", "RPL_ENDOFMOTD", "RPL_MOTD"} ->
               [t |-> "Network",
                cmd |-> [c |-> "UnknownCode", code |-> msg.command, args |-> msg.args,
                         body |-> msg.body]]
          [] OTHER -> RoutedNone

\* route_message
RouteMessage(msg, cur_nick) ==
    LET sender == IF IsSome(msg.prefix) THEN Some(ParsePrefix(Unwrap(msg.prefix))) ELSE None
    IN  IF IsSome(sender) /\ Unwrap(sender).t = "Panic" THEN RoutedPanic
        ELSE RouteCommand(msg, sender, cur_nick)

----------------------------------------------------------------------------
(* src/handle.rs: update handles *)

\* BaseUpdateHandle::new. ops records the calls made on the handle, in order.
NewHandle == [msgs |-> << >>, alerts |-> << >>, ops |-> << >>]

\* the closures handed to UpdateHandle::wrap, as data
WrapBuf(targ) == [w |-> "BufMsg", targ |-> targ]
WrapNet(nid) == [w |-> "NetMsg", nid |-> nid]

\* applying a wrap closure: |msg| CoreNetMsg::BufMsg(targ, msg) and
\* |msg| CoreMsg::NetMsg(nid, msg)
ApplyWrap(w, m) ==
    IF w.w = "BufMsg"
    THEN [t |-> "BufMsg", targ |-> w.targ, msg |-> m]
    ELSE [t |-> "NetMsg", nid |-> w.nid, msg |-> m]

\* send_msg with the closure of the outermost handle applied first
RECURSIVE SendMsgOuterFirst(_, _, _)
SendMsgOuterFirst(u, ws, m) ==
    IF Len(ws) = 0
    THEN [u EXCEPT !.msgs = Append(@, m),
                   !.ops = Append(@, [op |-> "send_msg", v |-> m])]
    ELSE SendMsgOuterFirst(u, SubSeq(ws, 1, Len(ws) - 1), ApplyWrap(ws[Len(ws)], m))

\* WrappedUpdateHandle::send_msg down to BaseUpdateHandle::send_msg; ws lists
\* the wrap closures between the caller and the base handle, innermost first
RECURSIVE SendMsg(_, _, _)
SendMsg(u, ws, m) ==
    IF Len(ws) = 0
    THEN [u EXCEPT !.msgs = Append(@, m),
                   !.ops = Append(@, [op |-> "send_msg", v |-> m])]
    ELSE SendMsg(u, Tail(ws), ApplyWrap(Head(ws), m))

\* WrappedUpdateHandle::post_alert down to BaseUpdateHandle::post_alert
RECURSIVE PostAlert(_, _, _)
PostAlert(u, ws, a) ==
    IF Len(ws) = 0
    THEN [u EXCEPT !.alerts = Append(@, a),
                   !.ops = Append(@, [op |-> "post_alert", v |-> a])]
    ELSE PostAlert(u, Tail(ws), a)

----------------------------------------------------------------------------
(* src/buffer/log.rs: the log store.  A log is its read cursor and the day   *)
(* files of its directory; a day without a file has no entry in files.       *)

\* BufferLog::new
NewLog(files, today) == [next_read_day |-> today - 1, files |-> files]

\* BufferLog::write_lines
WriteLines(log, lines, today) ==
    LET old == IF today \in DOMAIN log.files THEN log.files[today] ELSE << >>
    IN  [log EXCEPT !.files = (today :> (old \o lines)) @@ log.files]

\* BufferLog::write_lines when the file system answers with io: "mkdir",
\* "open" and "write" say that creating the directory of the day, opening
\* the file of the day, or writing the line fails, "ok" that none does.  The
\* results of creating the directory and of writing are unwrapped, a failure
\* to open is logged; a failed write leaves the file that open created.
WriteLinesIo(log, lines, today, io) ==
    LET old == IF today \in DOMAIN log.files THEN log.files[today] ELSE << >>
    IN  CASE io = "mkdir" -> [log |-> log, panic |-> TRUE]
          [] io = "open" -> [log |-> log, panic |-> FALSE]
          [] io = "write" ->
               [log |-> [log EXCEPT !.files = (today :> old) @@ log.files], panic |-> TRUE]
          [] io = "ok" -> [log |-> WriteLines(log, lines, today), panic |-> FALSE]

\* reversing a sequence (Iterator::rev)
Reverse(s) == [i \in 1..Len(s) |-> s[Len(s) + 1 - i]]

\* lines_for_day without the rev() of the lines of the file
LinesForDayNoRev(log, day) ==
    IF day \in DOMAIN log.files THEN log.files[day] ELSE << >>

\* BufferLog::lines_for_day
LinesForDay(log, day) ==
    IF day \in DOMAIN log.files THEN Reverse(log.files[day]) ELSE << >>

\* fetch_lines that leaves the read cursor on a day without a log file
FetchLinesStay(log) ==
    [lines |-> LinesForDay(log, log.next_read_day),
     log |-> IF log.next_read_day \in DOMAIN log.files
             THEN [log EXCEPT !.next_read_day = @ - 1]
             ELSE log]

\* BufferLog::fetch_lines: the lines read and the log with its cursor moved
FetchLines(log) ==
    [lines |-> LinesForDay(log, log.next_read_day),
     log |-> [log EXCEPT !.next_read_day = @ - 1]]

----------------------------------------------------------------------------
(* src/buffer/mod.rs: buffers *)

TargChannel(name) == [t |-> "Channel", name |-> name]
TargPrivate(name) == [t |-> "Private", name |-> name]
TargNetwork == [t |-> "Network", name |-> << >>]

\* Buffer::new
NewBuffer(nid, id, files, today) ==
    LET f == FetchLines(NewLog(files, today))
    IN  [id |-> id, nid |-> nid, line_id |-> 0, front |-> << >>, back |-> f.lines,
         joined |-> (id.t = "Private"), users |-> {}, names_ended |-> TRUE,
         log |-> f.log]

\* Buffer::last_idx
LastIdx(buf) == IF Len(buf.back) = 0 THEN 0 ELSE -Len(buf.back)

\* Buffer::front_len
FrontLen(buf) == Len(buf.front)

\* Buffer::get_line: the buffer afterwards and the line found, if any
GetLine(buf, idx) ==
    LET f == FetchLines(buf.log)
        b == IF idx < LastIdx(buf)
             THEN [buf EXCEPT !.back = @ \o f.lines, !.log = f.log]
             ELSE buf
    IN  [buf |-> b,
         line |-> IF idx < 0
                  THEN IF -idx <= Len(b.back) THEN Some(b.back[-idx]) ELSE None
                  ELSE IF idx + 1 <= Len(b.front) THEN Some(b.front[idx + 1]) ELSE None]

\* Buffer::push_line; now is the time read by BufferLine::new
PushLine(buf, data, now, u, ws) ==
    LET line == [time |-> now, data |-> data]
    IN  [buf |-> [buf EXCEPT !.line_id = @ + 1,
                             !.front = Append(@, line),
                             !.log = WriteLines(@, << line >>, now.day)],
         u |-> SendMsg(u, ws, [t |-> "NewLines", lines |-> << line >>])]

\* Buffer::push_line when the file system answers write_lines with io; a
\* panic of write_lines leaves push_line before NewLines is sent
PushLineIo(buf, data, now, u, ws, io) ==
    LET line == [time |-> now, data |-> data]
        w == WriteLinesIo(buf.log, << line >>, now.day, io)
        b == [buf EXCEPT !.line_id = @ + 1, !.front = Append(@, line), !.log = w.log]
    IN  IF w.panic
        THEN [buf |-> b, u |-> u, panic |-> TRUE]
        ELSE [buf |-> b, u |-> SendMsg(u, ws, [t |-> "NewLines", lines |-> << line >>]),
              panic |-> FALSE]

\* Buffer::set_joined
SetJoined(buf, joined, u, ws) ==
    [buf |-> [buf EXCEPT !.joined = joined],
     u |-> SendMsg(u, ws, [t |-> "State", joined |-> joined])]

\* the name of a RPL_NAMREPLY entry without its leading @ or +
StripMode(name) ==
    IF StartsWith(name, << "@" >>) \/ StartsWith(name, << "+" >>)
    THEN Slice(name, 1, Len(name))
    ELSE name

\* the names a RPL_NAMREPLY body lists
NamesOf(body) ==
    LET parts == Split(body, " ")
    IN  {StripMode(parts[i]) : i \in 1..Len(parts)}

\* Option::unwrap_or("No reason given")
S_NoReason == << "n", "o", "n", "e" >>
ReasonOr(reason) == IF IsSome(reason) THEN Unwrap(reason) ELSE S_NoReason

\* the alerts of Buffer::handle_cmd's PRIVMSG arm
AlertPing(nid, bid, by) == [kind |-> "ping", nid |-> nid, bid |-> bid, by |-> by]
AlertPrivmsg(nid, bid, by) == [kind |-> "privmsg", nid |-> nid, bid |-> bid, by |-> by]

\* Buffer::handle_cmd, PRIVMSG arm, with the line pushed before the alert is
\* posted and a private message alerting only on a ping
HandlePrivmsgLineFirst(buf, cmd, my_nick, now, u, ws) ==
    LET r == PushLine(buf, [t |-> "Message", kind |-> "PrivMsg", from |-> cmd.user.nick,
                            msg |-> cmd.msg], now, u, ws)
    IN  [buf |-> r.buf,
         u |-> IF Contains(cmd.msg, my_nick)
               THEN PostAlert(r.u, ws, AlertPing(buf.nid, buf.id.name, cmd.user.nick))
               ELSE r.u]

\* Buffer::handle_cmd, PRIVMSG arm
HandlePrivmsg(buf, cmd, my_nick, now, u, ws) ==
    LET u1 == IF buf.id.t = "Channel"
              THEN IF Contains(cmd.msg, my_nick)
                   THEN PostAlert(u, ws, AlertPing(buf.nid, buf.id.name, cmd.user.nick))
                   ELSE u
              ELSE IF buf.id.t = "Private"
              THEN PostAlert(u, ws, AlertPrivmsg(buf.nid, buf.id.name, cmd.user.nick))
              ELSE u
    IN  PushLine(buf, [t |-> "Message", kind |-> "PrivMsg", from |-> cmd.user.nick,
                       msg |-> cmd.msg], now, u1, ws)

\* Buffer::handle_cmd, RPL_NAMREPLY arm
HandleNamReply(buf, body) ==
    LET cleared == IF buf.names_ended THEN {} ELSE buf.users
    IN  [buf EXCEPT !.users = cleared \cup NamesOf(body)]

\* Buffer::handle_cmd
HandleCmd(buf, cmd, my_nick, now, u, ws) ==
    CASE cmd.c = "JOIN" ->
           LET r == IF cmd.user.nick = my_nick
                    THEN SetJoined(buf, TRUE, u, ws)
                    ELSE [buf |-> [buf EXCEPT !.users = @ \cup {cmd.user.nick}], u |-> u]
           IN  PushLine(r.buf, [t |-> "Join", user |-> cmd.user], now, r.u, ws)
      [] cmd.c = "PART" ->
           LET r == IF cmd.user.nick = my_nick
                    THEN LET j == SetJoined(buf, FALSE, u, ws)
                         IN  [buf |-> [j.buf EXCEPT !.users = {}], u |-> j.u]
                    ELSE [buf |-> [buf EXCEPT !.users = @ \ {cmd.user.nick}], u |-> u]
           IN  PushLine(r.buf, [t |-> "Part", user |-> cmd.user,
                                reason |-> ReasonOr(cmd.reason)], now, r.u, ws)
      [] cmd.c = "KICK" ->
           LET r == IF cmd.targ = my_nick
                    THEN LET j == SetJoined(buf, FALSE, u, ws)
                         IN  [buf |-> [j.buf EXCEPT !.users = {}], u |-> j.u]
                    ELSE [buf |-> [buf EXCEPT !.users = @ \ {cmd.targ}], u |-> u]
           IN  PushLine(r.buf, [t |-> "Kick", by |-> cmd.by, user |-> cmd.targ,
                                reason |-> ReasonOr(cmd.reason)], now, r.u, ws)
      [] cmd.c = "PRIVMSG" -> HandlePrivmsg(buf, cmd, my_nick, now, u, ws)
      [] cmd.c = "NOTICE" ->
           PushLine(buf, [t |-> "Message", kind |-> "Notice",
                          from |-> SenderName(cmd.sender), msg |-> cmd.msg], now, u, ws)
      [] cmd.c = "ACTION" ->
           PushLine(buf, [t |-> "Message", kind |-> "Action", from |-> cmd.user.nick,
                          msg |-> cmd.msg], now, u, ws)
      [] cmd.c = "RPL_NAMREPLY" -> [buf |-> HandleNamReply(buf, cmd.body), u |-> u]
      [] cmd.c = "RPL_ENDOFNAMES" -> [buf |-> [buf EXCEPT !.names_ended = TRUE], u |-> u]
      [] cmd.c = "RPL_MOTD" ->
           PushLine(buf, [t |-> "Message", kind |-> "Response", from |-> << "m", "o", "t", "d" >>,
                          msg |-> cmd.msg], now, u, ws)

----------------------------------------------------------------------------
(* src/network/mod.rs: a network.  The operators below work on a context     *)
(* [net, u, q, alive, panic]: the IrcNetwork, the base update handle its     *)
(* events end in, the channel of its IrcSender, whether the IrcSendRx end of *)
(* that channel (and the notifier) is alive, and whether the call panicked.  *)

\* an IRC message, Message::new
Message(prefix, command, args, body) ==
    [prefix |-> prefix, command |-> command, args |-> args, body |-> body]

\* IrcNetwork::new
NewNetwork(id, cfg) ==
    [id |-> id, cfg |-> cfg, nick |-> << >>, conn |-> FALSE, bufs |-> << >>]

\* Buffer::as_info
AsInfo(buf) == [id |-> buf.id, joined |-> buf.joined]

\* the log directory of a buffer as found on disk when the buffer is created
DiskFiles(dir, targ) == IF targ \in DOMAIN dir THEN dir[targ] ELSE << >>

\* a get_create_buf that creates the buffer without announcing it
GetCreateBufSilent(C, targ, dir, now, ws) ==
    IF targ \in DOMAIN C.net.bufs THEN C
    ELSE LET buf == NewBuffer(C.net.id, targ, DiskFiles(dir, targ), now.day)
         IN  [C EXCEPT !.net.bufs = (targ :> buf) @@ @]

\* IrcNetwork::get_create_buf
GetCreateBuf(C, targ, dir, now, ws) ==
    IF targ \in DOMAIN C.net.bufs THEN C
    ELSE LET buf == NewBuffer(C.net.id, targ, DiskFiles(dir, targ), now.day)
         IN  [C EXCEPT !.u = SendMsg(@, ws, [t |-> "Buffers", bufs |-> << AsInfo(buf) >>]),
                       !.net.bufs = (targ :> buf) @@ @]

\* the part of IrcNetwork::handle_msg that hands a routed command to a buffer
HandleBufCmd(C, targ, cmd, dir, now, ws) ==
    LET C1 == GetCreateBuf(C, targ, dir, now, ws)
        r == HandleCmd(C1.net.bufs[targ], cmd, C.net.nick, now, C1.u, << WrapBuf(targ) >> \o ws)
    IN  [C1 EXCEPT !.net.bufs[targ] = r.buf, !.u = r.u]

\* IrcNetwork::send_with_conn: the context afterwards and whether it was Ok
SendWithConn(C, msg, ws) ==
    IF C.net.conn
    THEN IF C.alive
         THEN [C |-> [C EXCEPT !.q = Append(@, msg)], ok |-> TRUE]
         ELSE [C |-> [C EXCEPT !.net.conn = FALSE,
                               !.u = SendMsg(@, ws, [t |-> "Connection", connected |-> FALSE])],
               ok |-> FALSE]
    ELSE [C |-> C, ok |-> FALSE]

\* Buffer::handle_quit
HandleQuit(buf, user, reason, now, u, ws) ==
    PushLine([buf EXCEPT !.users = @ \ {user.nick}],
             [t |-> "Quit", user |-> user, msg |-> reason], now, u, ws)

\* Buffer::handle_nick
HandleNick(buf, user, new, now, u, ws) ==
    PushLine([buf EXCEPT !.users = (@ \ {user.nick}) \cup {new}],
             [t |-> "Nick", user |-> user, new |-> new], now, u, ws)

\* the keys of a HashMap in the order its iterator yields them (one fixed order)
RECURSIVE KeysInOrder(_)
KeysInOrder(S) ==
    IF S = {} THEN << >>
    ELSE LET k == CHOOSE x \in S : TRUE
         IN  << k >> \o KeysInOrder(S \ {k})

\* the loops without the test buf.has_user(&user.nick)
RECURSIVE ForEachBuf(_, _, _, _, _)
ForEachBuf(C, targs, cmd, now, ws) ==
    IF Len(targs) = 0 THEN C
    ELSE LET targ == Head(targs)
             buf == C.net.bufs[targ]
             r == IF cmd.c = "QUIT"
                  THEN HandleQuit(buf, cmd.user, cmd.reason, now, C.u, << WrapBuf(targ) >> \o ws)
                  ELSE HandleNick(buf, cmd.user, cmd.new, now, C.u, << WrapBuf(targ) >> \o ws)
         IN  ForEachBuf([C EXCEPT !.net.bufs[targ] = r.buf, !.u = r.u], Tail(targs),
                        cmd, now, ws)

\* the loops of handle_net_cmd's QUIT and NICK arms over self.bufs
RECURSIVE ForEachBufWithUser(_, _, _, _, _)
ForEachBufWithUser(C, targs, cmd, now, ws) ==
    IF Len(targs) = 0 THEN C
    ELSE LET targ == Head(targs)
             buf == C.net.bufs[targ]
             r == IF cmd.c = "QUIT"
                  THEN HandleQuit(buf, cmd.user, cmd.reason, now, C.u, << WrapBuf(targ) >> \o ws)
                  ELSE HandleNick(buf, cmd.user, cmd.new, now, C.u, << WrapBuf(targ) >> \o ws)
             C1 == IF cmd.user.nick \in buf.users
                   THEN [C EXCEPT !.net.bufs[targ] = r.buf, !.u = r.u]
                   ELSE C
         IN  ForEachBufWithUser(C1, Tail(targs), cmd, now, ws)

\* "*CTCP VERSION request*"
S_VersionRequest == << "*" >> \o S_VERSION \o << "*" >>

\* "\u{1}VERSION distirc <version>\u{1}"
B_VersionReply ==
    << Delim >> \o S_VERSION \o << " ", "d" >> \o << Delim >>

\* IrcNetwork::handle_net_cmd
HandleNetCmd(C, cmd, now, ws) ==
    CASE cmd.c = "QUIT" ->
           ForEachBufWithUser(C, KeysInOrder(DOMAIN C.net.bufs), cmd, now, ws)
      [] cmd.c = "NICK" ->
           LET C1 == IF cmd.user.nick = C.net.nick
                     THEN [C EXCEPT !.net.nick = cmd.new,
                                    !.u = SendMsg(@, ws, [t |-> "NickChanged", nick |-> cmd.new])]
                     ELSE C
           IN  ForEachBufWithUser(C1, KeysInOrder(DOMAIN C1.net.bufs), cmd, now, ws)
      [] cmd.c = "RPL_MYINFO" -> [C EXCEPT !.net.nick = cmd.nick]
      [] cmd.c = "CtcpQuery" /\ cmd.ctcp.tag = S_VERSION ->
           IF TargNetwork \notin DOMAIN C.net.bufs
           THEN [C EXCEPT !.panic = TRUE]
           ELSE LET r == PushLine(C.net.bufs[TargNetwork],
                                  [t |-> "Message", kind |-> "Status", from |-> cmd.user.nick,
                                   msg |-> S_VersionRequest],
                                  now, C.u, << WrapBuf(TargNetwork) >> \o ws)
                    C1 == [C EXCEPT !.net.bufs[TargNetwork] = r.buf, !.u = r.u]
                IN  SendWithConn(C1, Message(None, "NOTICE", << cmd.user.nick >>,
                                             Some(B_VersionReply)), ws).C
      [] OTHER -> C

\* IrcNetwork::handle_msg
HandleMsg(C, msg, dir, now, ws) ==
    LET r == RouteMessage(msg, C.net.nick)
    IN  CASE r.t = "Panic" -> [C EXCEPT !.panic = TRUE]
          [] r.t = "Network" -> HandleNetCmd(C, r.cmd, now, ws)
          [] r.t = "Channel" -> HandleBufCmd(C, TargChannel(r.chan), r.cmd, dir, now, ws)
          [] r.t = "Private" -> HandleBufCmd(C, TargPrivate(r.user.nick), r.cmd, dir, now, ws)
          [] r.t = "NetBuffer" -> HandleBufCmd(C, TargNetwork, r.cmd, dir, now, ws)
          [] OTHER -> C

\* IrcNetwork::register_conn (it panics when a connection is registered)
RegisterConn(C) ==
    IF C.net.conn THEN [C EXCEPT !.panic = TRUE]
    ELSE [C EXCEPT !.net.conn = TRUE, !.q = << >>, !.alive = TRUE,
                   !.u = SendMsg(@, << >>,
                                 ApplyWrap(WrapNet(C.net.id),
                                           [t |-> "Connection", connected |-> TRUE]))]

\* a disconnect that also forgets the nick
DisconnectResetNick(C, ws) ==
    [C EXCEPT !.net.conn = FALSE, !.net.nick = << >>,
              !.u = SendMsg(@, ws, [t |-> "Connection", connected |-> FALSE])]

\* IrcNetwork::disconnect
Disconnect(C, ws) ==
    [C EXCEPT !.net.conn = FALSE,
              !.u = SendMsg(@, ws, [t |-> "Connection", connected |-> FALSE])]

\* SendMsgKind::to_msg_kind
ToMsgKind(kind) == kind

\* the IRC message send_chat_msg builds for a destination
ChatIrcMsg(dest, msg, kind) ==
    CASE kind = "PrivMsg" -> Message(None, "PRIVMSG", << dest >>, Some(msg))
      [] kind = "Notice" -> Message(None, "NOTICE", << dest >>, Some(msg))
      [] kind = "Action" ->
           Message(None, "PRIVMSG", << dest >>,
                   Some(<< Delim >> \o S_ACTION \o << " " >> \o msg \o << Delim >>))

\* send_chat_msg that echoes the line whether or not the message was sent
SendChatMsgEchoAlways(C, targ, msg, kind, now, ws, debug) ==
    IF targ \notin DOMAIN C.net.bufs THEN [C |-> C, res |-> "Unavail"]
    ELSE IF targ.t = "Network" THEN [C |-> C, res |-> "BadTarget"]
    ELSE LET r == SendWithConn(C, ChatIrcMsg(targ.name, msg, kind), ws)
             p == PushLine(r.C.net.bufs[targ],
                           [t |-> "Message", kind |-> ToMsgKind(kind),
                            from |-> r.C.net.nick, msg |-> msg],
                           now, r.C.u, << WrapBuf(targ) >> \o ws)
         IN  [C |-> [r.C EXCEPT !.net.bufs[targ] = p.buf, !.u = p.u],
              res |-> IF r.ok THEN "Ok" ELSE "Disconnected"]

\* IrcNetwork::send_chat_msg: the context afterwards and the result; debug
\* tells whether debug_assert! is compiled in
SendChatMsg(C, targ, msg, kind, now, ws, debug) ==
    IF targ \notin DOMAIN C.net.bufs THEN [C |-> C, res |-> "Unavail"]
    ELSE IF targ.t = "Network" THEN [C |-> C, res |-> "BadTarget"]
    ELSE LET r == SendWithConn(C, ChatIrcMsg(targ.name, msg, kind), ws)
         IN  IF ~r.ok THEN [C |-> r.C, res |-> "Disconnected"]
             ELSE IF debug /\ Len(r.C.net.nick) = 0
             THEN [C |-> [r.C EXCEPT !.panic = TRUE], res |-> "Panic"]
             ELSE LET p == PushLine(r.C.net.bufs[targ],
                                    [t |-> "Message", kind |-> ToMsgKind(kind),
                                     from |-> r.C.net.nick, msg |-> msg],
                                    now, r.C.u, << WrapBuf(targ) >> \o ws)
                  IN  [C |-> [r.C EXCEPT !.net.bufs[targ] = p.buf, !.u = p.u], res |-> "Ok"]

\* a wakeup that takes one message from the channel
DrainRxOne(q) ==
    IF Len(q) = 0 THEN [msgs |-> << >>, rest |-> << >>]
    ELSE [msgs |-> << Head(q) >>, rest |-> Tail(q)]

\* the loop of IrcNetConn::wakeup over IrcSendRx::recv: the messages taken
\* from the channel of the IrcSender, oldest first, until it is empty, and
\* what the channel then holds
DrainRx(q) == [msgs |-> q, rest |-> << >>]

\* IrcConnection::bytes_flushed: the first message of sendq is written to the
\* transport
BytesFlushed(sendq, out) ==
    IF Len(sendq) = 0 THEN [sendq |-> sendq, out |-> out]
    ELSE [sendq |-> Tail(sendq), out |-> Append(out, Head(sendq))]

\* IrcNetwork::to_info
ToInfo(net) ==
    [id |-> net.id, nick |-> net.nick,
     buffers |-> {AsInfo(net.bufs[targ]) : targ \in DOMAIN net.bufs}]

----------------------------------------------------------------------------
(* src/state/user.rs: the UserHandle.  The operators below work on a record  *)
(* [clients, alerts, chan, alive, alert_cmd, spawned]: the clients and       *)
(* alerts of the UserHandle, the channel to each client, the clients whose   *)
(* receiving end and notifier are alive, whether cfg.alert_cmd is set, and   *)
(* the alerts handed to the alert command.                                   *)

Range(s) == {s[i] : i \in 1..Len(s)}

\* UserHandle::broadcast: a client whose channel is closed is pruned
Broadcast(U, msg) ==
    LET keep == SelectSeq(U.clients, LAMBDA c : c \in U.alive)
    IN  [U EXCEPT !.clients = keep,
                  !.chan = [c \in DOMAIN U.chan |->
                               IF c \in Range(keep) THEN Append(U.chan[c], msg)
                               ELSE U.chan[c]]]

\* the loop of exec_update_handle over u.take_msgs()
RECURSIVE BroadcastAll(_, _)
BroadcastAll(U, msgs) ==
    IF Len(msgs) = 0 THEN U
    ELSE BroadcastAll(Broadcast(U, Head(msgs)), Tail(msgs))

\* UserHandle::exec_update_handle; the alerts taken are those of the
\* UserHandle (self.take_alerts()), the alerts of u are not read
ExecUpdateHandle(U, u) ==
    LET U1 == BroadcastAll(U, u.msgs)
        taken == U1.alerts
        U2 == [U1 EXCEPT !.alerts = << >>]
    IN  IF Len(U1.clients) > 0
        THEN Broadcast(U2, [t |-> "Alerts", alerts |-> taken])
        ELSE IF U1.alert_cmd
        THEN [U2 EXCEPT !.spawned = @ \o taken]
        ELSE [U2 EXCEPT !.alerts = @ \o taken]

\* UserHandle::register_client
RegisterClient(U, c) ==
    [U EXCEPT !.clients = Append(@, c), !.chan[c] = << >>, !.alive = @ \cup {c}]

----------------------------------------------------------------------------
(* src/conn/client.rs: a client connection *)

\* a password comparison that accepts every password
PasswordAny(cfg, pass) == TRUE

\* the comparison of Client::handle_auth_msgs: &usr.cfg.password == &pass.0
PasswordOk(cfg, pass) == cfg.password = pass

\* the loop of the FetchLogs arm with its body run once before the count is
\* looked at
FetchLoopAtLeastOnce(buf, start, i, count, idx, lines) ==
    LET g == GetLine(buf, start - i)
    IN  IF IsSome(g.line)
        THEN [buf |-> g.buf, idx |-> idx - 1, lines |-> Append(lines, Unwrap(g.line)),
              miss |-> FALSE]
        ELSE [buf |-> g.buf, idx |-> idx, lines |-> lines, miss |-> TRUE]

\* the loop of the FetchLogs arm of Client::handle_buf_msg; i is its loop
\* variable, idx the cursor (cb.last_sent_idx); miss tells that the loop left
\* through its break
RECURSIVE FetchLoop(_, _, _, _, _, _)
FetchLoop(buf, start, i, count, idx, lines) ==
    IF i >= count
    THEN [buf |-> buf, idx |-> idx, lines |-> lines, miss |-> FALSE]
    ELSE LET g == GetLine(buf, start - i)
         IN  IF IsSome(g.line)
             THEN FetchLoop(g.buf, start, i + 1, count, idx - 1,
                            Append(lines, Unwrap(g.line)))
             ELSE [buf |-> g.buf, idx |-> idx, lines |-> lines, miss |-> TRUE]

\* the FetchLogs arm of Client::handle_buf_msg: bufs is the client's
\* HashMap<BufTarget, ClientBuf>, cur the cursor the loop starts from
FetchLogs(bufs, buf, targ, count) ==
    LET cur == IF targ \in DOMAIN bufs THEN bufs[targ] ELSE FrontLen(buf)
        r == FetchLoop(buf, cur - 1, 0, count, cur, << >>)
    IN  [bufs |-> (targ :> r.idx) @@ bufs, buf |-> r.buf, lines |-> r.lines,
         cur |-> cur, miss |-> r.miss]

\* the SendMsg arm of Client::handle_buf_msg: the context afterwards and the
\* Status the action sends, if any
HandleBufMsg(C, targ, msg, kind, now, ws, debug) ==
    LET r == SendChatMsg(C, targ, msg, kind, now, ws, debug)
    IN  [C |-> r.C,
         status |-> IF r.res \in {"Ok", "Panic"} THEN None
                    ELSE Some([t |-> "Status", what |-> "send to channel", err |-> r.res])]

\* one of send_join_chan, send_part_chan and send_change_nick and the
\* Status sent when it returns an error
SendOrStatus(C, ircmsg, what, ws) ==
    LET r == SendWithConn(C, ircmsg, ws)
    IN  [C |-> r.C,
         status |-> IF r.ok THEN None
                    ELSE Some([t |-> "Status", what |-> what, err |-> "Disconnected"])]

\* Client::handle_net_msg on the network of the context C, whose id is nid
HandleNetMsg(C, req, nid, now, debug) ==
    CASE req.t = "BufMsg" ->
           IF req.targ \in DOMAIN C.net.bufs
           THEN HandleBufMsg(C, req.targ, req.msg, req.kind, now, << WrapNet(nid) >>, debug)
           ELSE [C |-> C, status |-> None]
      [] req.t = "JoinChan" ->
           SendOrStatus(C, Message(None, "JOIN", << req.chan >>, None), "join channel",
                        << WrapNet(nid) >>)
      [] req.t = "PartChan" ->
           SendOrStatus(C, Message(None, "PART", << req.chan >>, req.optmsg), "part channel",
                        << WrapNet(nid) >>)
      [] req.t = "ChangeNick" ->
           SendOrStatus(C, Message(None, "NICK", << req.nick >>, None), "change nick",
                        << WrapNet(nid) >>)

----------------------------------------------------------------------------
(* The strings the model feeds the program *)

S_bo == << "b", "o" >>
S_a == << "a" >>
S_c == << "c" >>
S_x == << "#", "x" >>
S_hi == << "h", "i" >>
S_abo == << "a", "b", "o" >>
S_b == << "b" >>
S_Empty == << >>
\* "a!i@h", "bo!i@h": user prefixes; "s": a server prefix; "a@h!i": a prefix
\* whose '@' comes before its '!'
P_a == << "a", "!", "i", "@", "h" >>
P_bo == << "b", "o", "!", "i", "@", "h" >>
P_s == << "s" >>
P_bad == << "a", "@", "h", "!", "i" >>
U_a == [nick |-> S_a, ident |-> << "i" >>, host |-> << "h" >>]
U_bo == [nick |-> S_bo, ident |-> << "i" >>, host |-> << "h" >>]
\* CTCP bodies
B_Action == << Delim >> \o S_ACTION \o << " " >> \o S_hi \o << Delim >>
B_action == << Delim, "a", "c", "t", "i", "o", "n", " " >> \o S_hi \o << " " >> \o S_bo \o << Delim >>
B_ActionOpen == << Delim >> \o S_ACTION \o << " " >> \o S_hi
B_Version == << Delim >> \o S_VERSION \o << Delim >>
B_Delim == << Delim >>

\* all sequences over S of length at most n
RECURSIVE SeqsUpTo(_, _)
SeqsUpTo(S, n) ==
    IF n = 0 THEN {<< >>}
    ELSE LET shorter == SeqsUpTo(S, n - 1)
         IN  shorter \cup {Append(q, x) : q \in shorter, x \in S}

----------------------------------------------------------------------------
(* Router harness: route_message applied to one IRC message *)

RouteCommands ==
    {"JOIN", "PART", "KICK", "PRIVMSG", "NOTICE", "QUIT", "NICK", "PING", "MODE"}
        \cup Responses
RoutePrefixes == {None, Some(P_a), Some(P_bo), Some(P_s), Some(P_bad)}
RouteArgVals == {S_bo, S_x}
RouteBodies ==
    {None, Some(S_hi), Some(S_bo), Some(S_x), Some(B_Action), Some(B_action),
     Some(B_ActionOpen), Some(B_Version), Some(B_Delim)}
\* the nick is empty until RPL_MYINFO has been handled (IrcNetwork::new)
RouteNicks == {S_bo, S_Empty}

RouteMsgs ==
    [prefix : RoutePrefixes, command : RouteCommands,
     args : SeqsUpTo(RouteArgVals, MaxArgs), body : RouteBodies]

Pending == [t |-> "Pending"]
IdleMsg == [prefix |-> None, command |-> "PING", args |-> << >>, body |-> None]

ctcpVars == << cin, cmsg, cfmt >>

\* no CTCP string is parsed
CtcpIdle ==
    /\ cin = [tag |-> S_ACTION, args |-> << >>]
    /\ cmsg = None
    /\ cfmt = None

RouteInit ==
    /\ rmsg \in RouteMsgs
    /\ rnick \in RouteNicks
    /\ rres = Pending
    /\ CtcpIdle

RouteIdle ==
    /\ rmsg = IdleMsg
    /\ rnick = S_Empty
    /\ rres = Pending
    /\ CtcpIdle

\* a call of route_message
Route ==
    /\ rres = Pending
    /\ rres' = RouteMessage(rmsg, rnick)
    /\ UNCHANGED << rmsg, rnick, ctcpVars >>

\* the CTCP message strings: a tag and arguments without spaces, the
\* arguments each after one space, between two delimiters
CtcpTags ==
    {S_ACTION, << "a", "c", "t", "i", "o", "n" >>, << "N", "O" >>, << "n", "o" >>,
     << "A" >>, << "b" >>}
CtcpWords == {S_hi, S_x, << "B", "o" >>}
CtcpInputs == [tag : CtcpTags, args : SeqsUpTo(CtcpWords, MaxCtcpArgs)]
CtcpString(in) == << Delim >> \o in.tag \o CtcpArgsFmt(in.args) \o << Delim >>

CtcpInit ==
    /\ rmsg = IdleMsg
    /\ rnick = S_Empty
    /\ rres = Pending
    /\ cin \in CtcpInputs
    /\ cmsg = None
    /\ cfmt = None

\* s.parse::<CtcpMsg>() on the string of cin
CtcpParse ==
    /\ cmsg = None
    /\ cmsg' = Some(CtcpFromStr(CtcpString(cin)))
    /\ UNCHANGED << rmsg, rnick, rres, cin, cfmt >>

\* format!("\u{1}{}\u{1}", msg) on the parsed message
CtcpFormat ==
    /\ IsSome(cmsg)
    /\ Unwrap(cmsg).ok
    /\ cfmt = None
    /\ cfmt' = Some(<< Delim >> \o CtcpFmt(Unwrap(cmsg)) \o << Delim >>)
    /\ UNCHANGED << rmsg, rnick, rres, cin, cmsg >>

routeVars == << rmsg, rnick, rres, ctcpVars >>

----------------------------------------------------------------------------
(* Buffer harness: Buffer::handle_cmd applied to a run of buffer commands,   *)
(* each with a fresh update handle                                           *)

NoFiles == << >>

wrapVars == << wu, wws, wcalls >>

\* no handle is wrapped
WrapIdle ==
    /\ wu = NewHandle
    /\ wws = << >>
    /\ wcalls = << >>

HarnessTargets == {TargChannel(S_x), TargPrivate(S_a)}
HarnessNicks == {S_bo, S_Empty}
HarnessCmds ==
    {[c |-> "PRIVMSG", user |-> U_a, msg |-> m] : m \in {S_hi, S_abo, S_b}}
    \cup {[c |-> "RPL_NAMREPLY", body |-> b] :
             b \in {S_a, << "@" >> \o S_bo \o << " " >> \o S_c, << "+" >> \o S_c}}
    \cup {[c |-> "RPL_ENDOFNAMES"], [c |-> "JOIN", user |-> U_a],
          [c |-> "PART", user |-> U_a, reason |-> None]}

BufInit ==
    /\ hbuf \in {NewBuffer(<< "n" >>, id, NoFiles, 0) : id \in HarnessTargets}
    /\ hnick \in HarnessNicks
    /\ hu = NewHandle
    /\ hcmds = 0
    /\ hlast = None
    /\ hsince = [ok |-> TRUE, bodies |-> << >>]
    /\ WrapIdle

BufIdle ==
    /\ hbuf = NewBuffer(<< "n" >>, TargNetwork, NoFiles, 0)
    /\ hnick = S_Empty
    /\ hu = NewHandle
    /\ hcmds = 0
    /\ hlast = None
    /\ hsince = [ok |-> TRUE, bodies |-> << >>]
    /\ WrapIdle

\* hsince: the bodies of the RPL_NAMREPLYs handled since the last
\* RPL_ENDOFNAMES (or since Buffer::new); ok is FALSE once a JOIN or PART
\* has changed the presence set in the middle of such a run of replies
SinceAfter(since, cmd) ==
    CASE cmd.c = "RPL_NAMREPLY" -> [since EXCEPT !.bodies = Append(@, cmd.body)]
      [] cmd.c = "RPL_ENDOFNAMES" -> [ok |-> TRUE, bodies |-> << >>]
      [] cmd.c \in {"JOIN", "PART"} ->
           IF Len(since.bodies) > 0 THEN [since EXCEPT !.ok = FALSE] ELSE since
      [] OTHER -> since

\* a call of Buffer::handle_cmd.  hlast is the command handled.
BufHandleCmd ==
    /\ hcmds < MaxCmds
    /\ \E cmd \in HarnessCmds :
          LET r == HandleCmd(hbuf, cmd, hnick, [day |-> 0, tick |-> hcmds], NewHandle, << >>)
          IN  /\ hbuf' = r.buf
              /\ hu' = r.u
              /\ hlast' = Some(cmd)
              /\ hsince' = SinceAfter(hsince, cmd)
    /\ hcmds' = hcmds + 1
    /\ UNCHANGED << hnick, wrapVars >>

bufVars == << hbuf, hnick, hu, hcmds, hlast, hsince, wrapVars >>

----------------------------------------------------------------------------
(* Log harness: one Buffer and the directory of its log files over several   *)
(* runs of the core.  lbuf.log.files is the directory, which outlives the    *)
(* Buffer; LogRestart constructs the Buffer anew over it.                    *)

LogNid == << "n" >>
LogData == [t |-> "Message", kind |-> "PrivMsg", from |-> S_a, msg |-> S_hi]
NoCall == [called |-> FALSE]
DiskAnswers == {"ok", "mkdir", "open", "write"}

LogInit ==
    /\ lnow = [day |-> 0, tick |-> 0]
    /\ lbuf = NewBuffer(LogNid, TargChannel(S_x), NoFiles, 0)
    /\ lreads = << -1 >>
    /\ lgot = NoCall

LogIdle ==
    /\ lnow = [day |-> 0, tick |-> 0]
    /\ lbuf = NewBuffer(LogNid, TargNetwork, NoFiles, 0)
    /\ lreads = << >>
    /\ lgot = NoCall

logVars == << lbuf, lnow, lreads, lgot >>

----------------------------------------------------------------------------
(* Network harness: one IrcNetwork handed IRC messages and requests to send, *)
(* each with a fresh update handle.  It starts from a network that has       *)
(* handled one of a few runs of messages and whose connection is not         *)
(* registered, registered, or registered with its receiving end dropped.     *)

S_y == << "#", "y" >>
S_aSpBo == << "a", " ", "b", "o" >>
NoDir == << >>

N_MyInfo == Message(Some(P_s), "RPL_MYINFO", << S_bo >>, None)
N_MyInfoC == Message(Some(P_s), "RPL_MYINFO", << S_c >>, None)
N_JoinBoX == Message(Some(P_bo), "JOIN", << S_x >>, None)
N_JoinBoY == Message(Some(P_bo), "JOIN", << S_y >>, None)
N_NamesX == Message(Some(P_s), "RPL_NAMREPLY", << S_bo, << "=" >>, S_x >>, Some(S_aSpBo))
N_NamesYa == Message(Some(P_s), "RPL_NAMREPLY", << S_bo, << "=" >>, S_y >>, Some(S_a))
N_NamesYbo == Message(Some(P_s), "RPL_NAMREPLY", << S_bo, << "=" >>, S_y >>, Some(S_bo))
N_ServerNotice == Message(Some(P_s), "NOTICE", << S_bo >>, Some(S_hi))
N_PartA == Message(Some(P_a), "PART", << S_x >>, None)
N_PartBo == Message(Some(P_bo), "PART", << S_x >>, None)
N_KickA == Message(Some(P_bo), "KICK", << S_x, S_a >>, None)
N_KickBo == Message(Some(P_a), "KICK", << S_x, S_bo >>, None)
N_QuitA == Message(Some(P_a), "QUIT", << >>, Some(S_hi))
N_QuitBo == Message(Some(P_bo), "QUIT", << >>, None)
N_NickA == Message(Some(P_a), "NICK", << S_c >>, None)
N_NickBo == Message(Some(P_bo), "NICK", << S_c >>, None)
N_JoinAY == Message(Some(P_a), "JOIN", << S_y >>, None)
N_ChanHi == Message(Some(P_a), "PRIVMSG", << S_x >>, Some(S_hi))

NetSetups ==
    {<< >>,
     << N_MyInfo >>,
     << N_NamesX >>,
     << N_MyInfo, N_ServerNotice, N_JoinBoX, N_NamesX, N_JoinBoY, N_NamesYa >>,
     << N_MyInfo, N_ServerNotice, N_JoinBoX, N_NamesX, N_JoinBoY, N_NamesYbo >>}
NetMsgs ==
    {N_MyInfoC, N_PartA, N_PartBo, N_KickA, N_KickBo, N_QuitA, N_QuitBo, N_NickA, N_NickBo,
     N_JoinAY, N_ChanHi}
ChatTargets == {TargChannel(S_x), TargPrivate(S_a), TargNetwork}
ChatKinds == {"PrivMsg", "Notice", "Action"}

\* the network harness's IrcNetwork as the context the operators work on
HarnessCtx(net, q, alive) ==
    [net |-> net, u |-> NewHandle, q |-> q, alive |-> alive, panic |-> FALSE]

\* the network after handle_msg has been called with each message of msgs
RECURSIVE NetAfter(_, _)
NetAfter(net, msgs) ==
    IF Len(msgs) = 0 THEN net
    ELSE NetAfter(HandleMsg(HarnessCtx(net, << >>, FALSE), Head(msgs), NoDir,
                            [day |-> 0, tick |-> 0], << >>).net,
                  Tail(msgs))

NoOp == [op |-> "none"]

sendVars == << nwake, nsendq, nout, nacc >>

N_Ping == Message(None, "PING", << S_x >>, Some(S_hi))

\* the messages handed to IrcNetwork::send
SendMsgs ==
    {Message(None, "JOIN", << S_y >>, None),
     Message(None, "PART", << S_x >>, None),
     Message(None, "PRIVMSG", << S_x >>, Some(S_hi))}

\* no IrcConnection machine runs
SendIdle ==
    /\ nwake = FALSE
    /\ nsendq = << >>
    /\ nout = << >>
    /\ nacc = << >>

NetHarnessInit ==
    /\ \E setup \in NetSetups, registered \in BOOLEAN :
          nnet = [NetAfter(NewNetwork("n1", [nick |-> S_bo, username |-> S_bo,
                                             realname |-> S_bo, nickserv_pass |-> None,
                                             channels |-> << S_x >>]), setup)
                  EXCEPT !.conn = registered]
    /\ nq = << >>
    /\ nalive \in BOOLEAN
    /\ nnet.conn \/ ~nalive
    /\ ndebug \in BOOLEAN
    /\ npanic = FALSE
    /\ nlast = NoOp
    /\ ncount = 0
    /\ SendIdle

NetIdle ==
    /\ nnet = NewNetwork("n1", [nick |-> S_bo, username |-> S_bo, realname |-> S_bo,
                                nickserv_pass |-> None, channels |-> << S_x >>])
    /\ nq = << >>
    /\ nalive = FALSE
    /\ ndebug = FALSE
    /\ npanic = FALSE
    /\ nlast = NoOp
    /\ ncount = 0
    /\ SendIdle

netVars == << nnet, nq, nalive, ndebug, npanic, nlast, ncount, sendVars >>

----------------------------------------------------------------------------
(* The core: one user, its networks and their IRC connections, its clients *)

NetIds == {"n1", "n2"}
ClientIds == {1, 2}

\* src/config.rs: the NetConfig of a network
NetCfg ==
    [nick |-> S_bo, username |-> S_bo, realname |-> S_bo,
     nickserv_pass |-> None, channels |-> << S_x >>]

\* a line of a log file written on an earlier day
DiskLine(day) ==
    [time |-> [day |-> day, tick |-> 0],
     data |-> [t |-> "Message", kind |-> "PrivMsg", from |-> S_a, msg |-> S_hi]]

\* the log directories of the buffers: for #x, a file of one line for each
\* of the days in days
DiskWith(days) ==
    [n \in NetIds |-> (TargChannel(S_x) :> [d \in days |-> << DiskLine(d) >>])]

\* the IRC messages received
M_ChanHi == Message(Some(P_a), "PRIVMSG", << S_x >>, Some(S_hi))
M_ChanPing == Message(Some(P_a), "PRIVMSG", << S_x >>, Some(S_abo))
M_MyInfo == Message(Some(P_s), "RPL_MYINFO", << S_bo >>, None)
FanMsgs == {M_ChanHi, M_ChanPing, M_MyInfo}
FetchTargets == {TargChannel(S_x)}

harnessVars == << routeVars, bufVars, logVars, netVars >>
coreVars == << nets, disk, clock, crashed >>
ircVars == << conn, ircq, ircOut >>
userVars == << uclients, ualerts, alertCmd, spawned >>
clientVars == << cl, chan, wire >>
histVars == << lastExec, fetches, attachedAt, ircHist >>
sysVars == << coreVars, ircVars, userVars, clientVars, histVars >>

\* the state after the core has loaded its configuration: no IRC connection,
\* no client, no buffer
SysInit ==
    /\ nets = [n \in NetIds |-> NewNetwork(n, NetCfg)]
    /\ disk \in {DiskWith(days) : days \in SUBSET ((-MaxDays)..(-1))}
    /\ clock = [day |-> 0, tick |-> 0]
    /\ crashed = FALSE
    /\ conn = [n \in NetIds |-> "None"]
    /\ ircq = [n \in NetIds |-> << >>]
    /\ ircOut = [n \in NetIds |-> << >>]
    /\ uclients = << >>
    /\ ualerts = << >>
    /\ alertCmd = FALSE
    /\ spawned = << >>
    /\ cl = [c \in ClientIds |-> [st |-> "None", bufs |-> << >>]]
    /\ chan = [c \in ClientIds |-> << >>]
    /\ wire = [c \in ClientIds |-> << >>]
    /\ lastExec = [n |-> 0, posted |-> << >>, attached |-> << >>]
    /\ fetches = << >>
    /\ attachedAt = [c \in ClientIds |-> << >>]
    /\ ircHist = [n \in NetIds |-> << >>]

SysIdle ==
    /\ nets = [n \in NetIds |-> NewNetwork(n, NetCfg)]
    /\ disk = DiskWith({})
    /\ clock = [day |-> 0, tick |-> 0]
    /\ crashed = FALSE
    /\ conn = [n \in NetIds |-> "None"]
    /\ ircq = [n \in NetIds |-> << >>]
    /\ ircOut = [n \in NetIds |-> << >>]
    /\ uclients = << >>
    /\ ualerts = << >>
    /\ alertCmd = FALSE
    /\ spawned = << >>
    /\ cl = [c \in ClientIds |-> [st |-> "None", bufs |-> << >>]]
    /\ chan = [c \in ClientIds |-> << >>]
    /\ wire = [c \in ClientIds |-> << >>]
    /\ lastExec = [n |-> 0, posted |-> << >>, attached |-> << >>]
    /\ fetches = << >>
    /\ attachedAt = [c \in ClientIds |-> << >>]
    /\ ircHist = [n \in NetIds |-> << >>]

\* the UserHandle and what surrounds it, as the record exec_update_handle
\* works on
UserCtx ==
    [clients |-> uclients, alerts |-> ualerts, chan |-> chan,
     alive |-> {c \in ClientIds : cl[c].st = "Connected"},
     alert_cmd |-> alertCmd, spawned |-> spawned]

\* user.exec_update_handle(u) on the user record U; lastExec records the
\* alerts posted to u and the clients attached when it is executed
Exec(U, u) ==
    LET V == ExecUpdateHandle(U, u)
    IN  /\ uclients' = V.clients
        /\ ualerts' = V.alerts
        /\ chan' = V.chan
        /\ spawned' = V.spawned
        /\ lastExec' = [n |-> lastExec.n + 1, posted |-> u.alerts,
                        attached |-> SelectSeq(U.clients, LAMBDA c : c \in U.alive)]

\* the network nid as the context the operators of a network work on
NetCtx(nid) ==
    [net |-> nets[nid], u |-> NewHandle, q |-> ircq[nid],
     alive |-> conn[nid] # "None", panic |-> FALSE]

\* IrcNetConn::create; ircOut holds what is written to the socket of the
\* connection created last
IrcCreate(nid) ==
    /\ ~crashed
    /\ conn[nid] = "None"
    /\ LET C == RegisterConn(NetCtx(nid))
       IN  IF C.panic
           THEN /\ crashed' = TRUE
                /\ UNCHANGED << nets, ircVars, uclients, ualerts, spawned, chan, lastExec >>
           ELSE /\ nets' = [nets EXCEPT ![nid] = C.net]
                /\ ircq' = [ircq EXCEPT ![nid] = C.q]
                /\ conn' = [conn EXCEPT ![nid] = "Identifying"]
                /\ ircOut' = [ircOut EXCEPT ![nid] =
                       << Message(None, "USER", << C.net.cfg.username, << "0" >>, << "*" >> >>,
                                  Some(C.net.cfg.realname)),
                          Message(None, "NICK", << C.net.cfg.nick >>, None) >>]
                /\ Exec(UserCtx, C.u)
                /\ UNCHANGED crashed
    /\ ircHist' = [ircHist EXCEPT ![nid] =
                       Append(@, [e |-> IF RegisterConn(NetCtx(nid)).panic
                                        THEN "panic" ELSE "create"])]
    /\ UNCHANGED << disk, clock, alertCmd, cl, wire, fetches, attachedAt, harnessVars >>

\* a lifecycle that joins the channels on the welcome numeric whether or not
\* a NickServ password is configured
LifecycleSkipAuth(st, msg, cfg) ==
    IF st = "Identifying" /\ msg.command = "RPL_WELCOME"
    THEN [st |-> "Connected",
          msgs |-> << Message(None, "JOIN", << Join(cfg.channels, << "," >>) >>, None) >>]
    ELSE [st |-> st, msgs |-> << >>]

\* a lifecycle that joins the channels on every NOTICE once identified
LifecycleJoinAgain(st, msg, cfg) ==
    CASE st = "Identifying" /\ msg.command = "RPL_WELCOME" ->
           IF IsSome(cfg.nickserv_pass)
           THEN [st |-> "Authing", msgs |-> << >>]
           ELSE [st |-> "Connected",
                 msgs |-> << Message(None, "JOIN", << Join(cfg.channels, << "," >>) >>, None) >>]
      [] st \in {"Authing", "Connected"} /\ msg.command = "NOTICE" /\ IsSome(msg.body) ->
           [st |-> "Connected",
            msgs |-> << Message(None, "JOIN", << Join(cfg.channels, << "," >>) >>, None) >>]
      [] OTHER -> [st |-> st, msgs |-> << >>]

\* the messages IrcNetConn::recv sends and the state it moves to once
\* handle_msg has returned
Lifecycle(st, msg, cfg) ==
    CASE st = "Identifying" /\ msg.command = "RPL_WELCOME" ->
           IF IsSome(cfg.nickserv_pass)
           THEN [st |-> "Authing",
                 msgs |-> << Message(None, "PRIVMSG", << << "N", "S" >> >>,
                                     Some(<< "i", "d", " " >> \o Unwrap(cfg.nickserv_pass))) >>]
           ELSE [st |-> "Connected",
                 msgs |-> << Message(None, "JOIN", << Join(cfg.channels, ",") >>, None) >>]
      [] st = "Authing" /\ msg.command = "NOTICE" /\ IsSome(msg.body) ->
           [st |-> "Connected",
            msgs |-> << Message(None, "JOIN", << Join(cfg.channels, ",") >>, None) >>]
      [] OTHER -> [st |-> st, msgs |-> << >>]

\* PONG without the body of the PING
PongNoBody(msg) == Message(None, "PONG", msg.args, None)

\* the PONG IrcNetConn::recv answers a PING with
Pong(msg) == Message(None, "PONG", msg.args, msg.body)

\* IrcNetConn::recv
IrcRecv(nid, msg) ==
    /\ ~crashed
    /\ conn[nid] # "None"
    /\ clock' = [clock EXCEPT !.tick = @ + 1]
    /\ IF msg.command = "PING"
       THEN /\ ircOut' = [ircOut EXCEPT ![nid] = Append(@, Pong(msg))]
            /\ Exec(UserCtx, NewHandle)
            /\ UNCHANGED << nets, conn, ircq, crashed >>
       ELSE LET C == HandleMsg(NetCtx(nid), msg, disk[nid], clock, << WrapNet(nid) >>)
                l == Lifecycle(conn[nid], msg, C.net.cfg)
            IN  IF C.panic
                THEN /\ crashed' = TRUE
                     /\ UNCHANGED << nets, ircVars, uclients, ualerts, spawned, chan, lastExec >>
                ELSE /\ nets' = [nets EXCEPT ![nid] = C.net]
                     /\ ircq' = [ircq EXCEPT ![nid] = C.q]
                     /\ conn' = [conn EXCEPT ![nid] = l.st]
                     /\ ircOut' = [ircOut EXCEPT ![nid] = @ \o l.msgs]
                     /\ Exec(UserCtx, C.u)
                     /\ UNCHANGED crashed
    /\ ircHist' = [ircHist EXCEPT ![nid] = Append(@, [e |-> "recv", msg |-> msg])]
    /\ UNCHANGED << disk, alertCmd, cl, wire, fetches, attachedAt, harnessVars >>

\* Protocol::exception and Protocol::fatal of IrcConnection: the transport
\* reports an error, IrcNetConn::disconnect is called and the machine ends
IrcException(nid) ==
    /\ ~crashed
    /\ conn[nid] # "None"
    /\ LET C == Disconnect(NetCtx(nid), << WrapNet(nid) >>)
       IN  /\ nets' = [nets EXCEPT ![nid] = C.net]
           /\ Exec(UserCtx, C.u)
    /\ conn' = [conn EXCEPT ![nid] = "None"]
    /\ ircq' = [ircq EXCEPT ![nid] = << >>]
    /\ ircHist' = [ircHist EXCEPT ![nid] =
                       Append(@, [e |-> "exception",
                                  sent |-> Disconnect(NetCtx(nid), << WrapNet(nid) >>).u.msgs])]
    /\ UNCHANGED << disk, clock, crashed, ircOut, alertCmd, cl, wire, fetches, attachedAt,
                    harnessVars >>

\* IrcConnection::fail (a line that is not UTF-8 or does not parse, a failed
\* write): the machine ends with Intent::error and the IrcNetConn is dropped,
\* and its IrcSendRx with it, without a call of IrcNetConn::disconnect, so
\* nothing is sent to the clients
IrcFail(nid) ==
    /\ ~crashed
    /\ conn[nid] # "None"
    /\ conn' = [conn EXCEPT ![nid] = "None"]
    /\ ircq' = [ircq EXCEPT ![nid] = << >>]
    /\ ircHist' = [ircHist EXCEPT ![nid] = Append(@, [e |-> "fail", sent |-> << >>])]
    /\ UNCHANGED << coreVars, ircOut, userVars, clientVars, lastExec, fetches, attachedAt,
                    harnessVars >>

\* Client::create: a client connects.  Clients connect in the order of
\* their ids.
ClientCreate(c) ==
    /\ ~crashed
    /\ cl[c].st = "None"
    /\ \A d \in ClientIds : d < c => cl[d].st # "None"
    /\ cl' = [cl EXCEPT ![c].st = "Authing"]
    /\ UNCHANGED << coreVars, ircVars, userVars, chan, wire, histVars, harnessVars >>

\* the front lengths of the buffers that exist
FrontLens ==
    [n \in NetIds |-> [targ \in DOMAIN nets[n].bufs |-> FrontLen(nets[n].bufs[targ])]]

\* the number of messages of kind t in a sequence of messages
RECURSIVE CountOf(_, _)
CountOf(msgs, t) ==
    IF Len(msgs) = 0 THEN 0
    ELSE (IF Head(msgs).t = t THEN 1 ELSE 0) + CountOf(Tail(msgs), t)

\* Client::handle_auth_msgs on an Authenticate message; good tells whether
\* the password is the user's
ClientAuth(c, good) ==
    /\ ~crashed
    /\ cl[c].st = "Authing"
    /\ IF good
       THEN LET U == RegisterClient(UserCtx, c)
            IN  /\ uclients' = U.clients
                /\ chan' = U.chan
                /\ cl' = [cl EXCEPT ![c] = [st |-> "Connected", bufs |-> << >>]]
                /\ wire' = [wire EXCEPT ![c] =
                       @ \o << [t |-> "AuthOk"],
                               [t |-> "Networks", nets |-> {ToInfo(nets[n]) : n \in NetIds}] >>]
                /\ attachedAt' = [attachedAt EXCEPT ![c] = FrontLens]
       ELSE /\ CountOf(wire[c], "AuthErr") < MaxAuthErr
            /\ wire' = [wire EXCEPT ![c] = Append(@, [t |-> "AuthErr"])]
            /\ UNCHANGED << uclients, chan, cl, attachedAt >>
    /\ UNCHANGED << coreVars, ircVars, ualerts, alertCmd, spawned, lastExec, fetches,
                    ircHist, harnessVars >>

\* Client::wakeup sending the messages of its channel newest first
RecvAllNewestFirst(q) == Reverse(q)

\* the messages Client::wakeup takes from its channel, in the order it
\* sends them
RecvAll(q) == q

\* Client::wakeup
ClientWakeup(c) ==
    /\ ~crashed
    /\ cl[c].st = "Connected"
    /\ Len(chan[c]) > 0
    /\ wire' = [wire EXCEPT ![c] = @ \o RecvAll(chan[c])]
    /\ chan' = [chan EXCEPT ![c] = << >>]
    /\ UNCHANGED << coreVars, ircVars, userVars, cl, histVars, harnessVars >>

\* Client::msg_recv on NetMsg(nid, BufMsg(targ, FetchLogs(count))) of a
\* connected client, through handle_user_msg, handle_net_msg and
\* handle_buf_msg
ClientFetchLogs(c, nid, targ, count) ==
    /\ ~crashed
    /\ cl[c].st = "Connected"
    /\ IF targ \in DOMAIN nets[nid].bufs
       THEN LET r == FetchLogs(cl[c].bufs, nets[nid].bufs[targ], targ, count)
            IN  /\ nets' = [nets EXCEPT ![nid].bufs[targ] = r.buf]
                /\ cl' = [cl EXCEPT ![c].bufs = r.bufs]
                /\ wire' = [wire EXCEPT ![c] =
                       Append(@, ApplyWrap(WrapNet(nid), ApplyWrap(WrapBuf(targ),
                                 [t |-> "Scrollback", lines |-> r.lines])))]
                /\ fetches' = Append(fetches,
                       [c |-> c, nid |-> nid, targ |-> targ, count |-> count, found |-> TRUE,
                        cur |-> r.cur, after |-> r.bufs[targ], lines |-> r.lines,
                        miss |-> r.miss])
       ELSE /\ fetches' = Append(fetches,
                       [c |-> c, nid |-> nid, targ |-> targ, count |-> count, found |-> FALSE,
                        cur |-> 0, after |-> 0, lines |-> << >>, miss |-> FALSE])
            /\ UNCHANGED << nets, cl, wire >>
    /\ Exec(UserCtx, NewHandle)
    /\ UNCHANGED << disk, clock, crashed, ircVars, alertCmd, attachedAt, ircHist,
                    harnessVars >>

\* src/config.rs: the password of the UserConfig of the user, and the id of
\* the user
UserCfg == [password |-> "pw"]
TheUser == "u"

\* Client::handle_auth_msgs returning Action::done(): the message is not an
\* Authenticate, or names no user; the connection is closed and nothing is
\* sent
ClientAuthDone(c) ==
    /\ ~crashed
    /\ cl[c].st = "Authing"
    /\ cl' = [cl EXCEPT ![c] = [st |-> "Closed", bufs |-> << >>]]
    /\ UNCHANGED << coreVars, ircVars, userVars, chan, wire, histVars, harnessVars >>

\* Client::msg_recv of a client that has not authenticated
ClientMsgRecvAuthing(c, msg) ==
    IF msg.t = "Authenticate" /\ msg.uid = TheUser
    THEN ClientAuth(c, PasswordOk(UserCfg, msg.pass))
    ELSE ClientAuthDone(c)

\* Client::wakeup of a client that has not authenticated: a warning, and
\* nothing is sent
ClientWakeupAuthing(c) ==
    /\ ~crashed
    /\ cl[c].st = "Authing"
    /\ UNCHANGED << sysVars, harnessVars >>

\* the connection of a client ends: its machine and the receiving end of its
\* channel are dropped
ClientClose(c) ==
    /\ ~crashed
    /\ cl[c].st \in {"Authing", "Connected"}
    /\ cl' = [cl EXCEPT ![c] = [st |-> "Closed", bufs |-> << >>]]
    /\ chan' = [chan EXCEPT ![c] = << >>]
    /\ UNCHANGED << coreVars, ircVars, userVars, wire, histVars, harnessVars >>

\* Client::msg_recv of a connected client on NetMsg(nid, req), through
\* handle_user_msg and handle_net_msg; req is a SendMsg to a buffer or a
\* JoinChan, PartChan or ChangeNick.  ndebug tells whether the build has
\* debug assertions.
ClientRequest(c, nid, req) ==
    /\ ~crashed
    /\ cl[c].st = "Connected"
    /\ clock' = [clock EXCEPT !.tick = @ + 1]
    /\ IF nid \notin DOMAIN nets
       THEN /\ Exec(UserCtx, NewHandle)
            /\ UNCHANGED << nets, ircq, wire, crashed >>
       ELSE LET r == HandleNetMsg(NetCtx(nid), req, nid, clock, ndebug)
            IN  IF r.C.panic
                THEN /\ crashed' = TRUE
                     /\ UNCHANGED << nets, ircq, wire, uclients, ualerts, spawned, chan,
                                     lastExec >>
                ELSE /\ nets' = [nets EXCEPT ![nid] = r.C.net]
                     /\ ircq' = [ircq EXCEPT ![nid] = r.C.q]
                     /\ wire' = [wire EXCEPT ![c] = @ \o r.status]
                     /\ Exec(UserCtx, r.C.u)
                     /\ UNCHANGED crashed
    /\ UNCHANGED << disk, conn, ircOut, alertCmd, cl, fetches, attachedAt, ircHist,
                    harnessVars >>

----------------------------------------------------------------------------
(* The steps of the log harness *)

\* a call of Buffer::push_line
LogPush ==
    /\ lnow.tick < MaxPushes
    /\ lbuf' = PushLine(lbuf, LogData, lnow, NewHandle, << >>).buf
    /\ lnow' = [lnow EXCEPT !.tick = @ + 1]
    /\ UNCHANGED << lreads, lgot, routeVars, bufVars, netVars, sysVars >>

\* midnight passes
LogNextDay ==
    /\ lnow.day < MaxLogDay
    /\ lnow' = [lnow EXCEPT !.day = @ + 1]
    /\ UNCHANGED << lbuf, lreads, lgot, routeVars, bufVars, netVars, sysVars >>

\* the core is restarted and Buffer::new constructs the buffer again
LogRestart ==
    /\ lbuf' = NewBuffer(LogNid, TargChannel(S_x), lbuf.log.files, lnow.day)
    /\ lreads' = << lnow.day - 1 >>
    /\ lgot' = NoCall
    /\ UNCHANGED << lnow, routeVars, bufVars, netVars, sysVars >>

\* a call of Buffer::get_line; lgot keeps the index asked for, the answer,
\* and last_idx() and the read cursor of the log before the call
LogGetLine ==
    \E idx \in (-MaxPushes - 1)..(MaxPushes - 1) :
        /\ Len(lreads) < MaxReads
        /\ lbuf' = GetLine(lbuf, idx).buf
        /\ lgot' = [called |-> TRUE, idx |-> idx, line |-> GetLine(lbuf, idx).line,
                    last_idx |-> LastIdx(lbuf), cursor |-> lbuf.log.next_read_day]
        /\ lreads' = IF lbuf'.log.next_read_day # lbuf.log.next_read_day
                     THEN Append(lreads, lbuf.log.next_read_day)
                     ELSE lreads
        /\ UNCHANGED << lnow, routeVars, bufVars, netVars, sysVars >>

\* the process has panicked in its last call of push_line
DiskPanicked == "panic" \in DOMAIN lgot /\ lgot.panic

\* a call of Buffer::push_line with a fresh update handle while the file
\* system answers with io; lgot keeps the answer, the messages sent to the
\* handle and whether the call panicked
DiskPush ==
    \E io \in DiskAnswers :
        /\ ~DiskPanicked
        /\ lnow.tick < MaxPushes
        /\ LET r == PushLineIo(lbuf, LogData, lnow, NewHandle, << >>, io)
           IN  /\ lbuf' = r.buf
               /\ lgot' = [called |-> FALSE, io |-> io, msgs |-> r.u.msgs, panic |-> r.panic]
        /\ lnow' = [lnow EXCEPT !.tick = @ + 1]
        /\ UNCHANGED << lreads, routeVars, bufVars, netVars, sysVars >>

----------------------------------------------------------------------------
(* The steps of the network harness *)

NetNow == [day |-> 0, tick |-> ncount + 1]

\* the outcome C of a call on the network is stored
NetStore(C, op, arg, res) ==
    /\ nnet' = C.net
    /\ nq' = C.q
    /\ npanic' = C.panic
    /\ nlast' = [op |-> op, arg |-> arg, res |-> res, msgs |-> C.u.msgs,
                 alerts |-> C.u.alerts]
    /\ ncount' = ncount + 1

\* a call of IrcNetwork::handle_msg
NetHandleMsg ==
    \E m \in NetMsgs :
        /\ ~npanic /\ ncount < MaxNetOps
        /\ NetStore(HandleMsg(HarnessCtx(nnet, nq, nalive), m, NoDir, NetNow, << >>),
                    "handle_msg", m, "Done")
        /\ UNCHANGED << nalive, ndebug, sendVars, routeVars, bufVars, logVars, sysVars >>

\* a call of IrcNetwork::send_chat_msg
NetSendChatMsg ==
    \E targ \in ChatTargets, kind \in ChatKinds :
        /\ ~npanic /\ ncount < MaxNetOps
        /\ LET r == SendChatMsg(HarnessCtx(nnet, nq, nalive), targ, S_hi, kind, NetNow,
                                << >>, ndebug)
           IN  NetStore(r.C, "send_chat_msg", [targ |-> targ, kind |-> kind, msg |-> S_hi],
                        r.res)
        /\ UNCHANGED << nalive, ndebug, sendVars, routeVars, bufVars, logVars, sysVars >>

\* a call of IrcNetwork::register_conn
NetRegisterConn ==
    /\ ~npanic /\ ncount < MaxNetOps
    /\ NetStore(RegisterConn(HarnessCtx(nnet, nq, nalive)), "register_conn", << >>, "Done")
    /\ nalive' = (nalive \/ ~nnet.conn)
    /\ UNCHANGED << ndebug, sendVars, routeVars, bufVars, logVars, sysVars >>

\* a call of IrcNetwork::disconnect, made when the connection machine ends
NetDisconnect ==
    /\ ~npanic /\ ncount < MaxNetOps
    /\ nnet.conn
    /\ NetStore([Disconnect(HarnessCtx(nnet, nq, nalive), << >>) EXCEPT !.q = << >>],
                "disconnect", << >>, "Done")
    /\ nalive' = FALSE
    /\ UNCHANGED << ndebug, sendVars, routeVars, bufVars, logVars, sysVars >>


----------------------------------------------------------------------------
(* The steps of the handle harness: calls on the innermost of the handles   *)
(* wrapped around one BaseUpdateHandle                                       *)

\* the closures handed to wrap
WrapClosures == {WrapBuf(TargChannel(S_x)), WrapBuf(TargNetwork), WrapNet("n1"), WrapNet("n2")}

\* the sequences over S of length n
RECURSIVE SeqsOf(_, _)
SeqsOf(S, n) ==
    IF n = 0 THEN {<< >>}
    ELSE {Append(q, x) : q \in SeqsOf(S, n - 1), x \in S}

\* the messages sent and the alerts posted
WrapMsgs == {[t |-> "State", joined |-> TRUE], [t |-> "State", joined |-> FALSE]}
WrapAlerts == {AlertPing("n1", S_x, S_a), AlertPrivmsg("n1", S_a, S_a)}

\* BaseUpdateHandle::new and the calls of wrap around it
WrapInit ==
    /\ wu = NewHandle
    /\ wws \in UNION {SeqsOf(WrapClosures, n) : n \in 0..MaxWrapDepth}
    /\ wcalls = << >>

\* a call of send_msg on the innermost handle
WrapSendMsg ==
    \E m \in WrapMsgs :
        /\ Len(wcalls) < MaxWrapCalls
        /\ wu' = SendMsg(wu, wws, m)
        /\ wcalls' = Append(wcalls, [op |-> "send_msg", v |-> m])
        /\ UNCHANGED << wws, hbuf, hnick, hu, hcmds, hlast, hsince,
                        routeVars, logVars, netVars, sysVars >>

\* a call of post_alert on the innermost handle
WrapPostAlert ==
    \E a \in WrapAlerts :
        /\ Len(wcalls) < MaxWrapCalls
        /\ wu' = PostAlert(wu, wws, a)
        /\ wcalls' = Append(wcalls, [op |-> "post_alert", v |-> a])
        /\ UNCHANGED << wws, hbuf, hnick, hu, hcmds, hlast, hsince,
                        routeVars, logVars, netVars, sysVars >>

----------------------------------------------------------------------------
(* The steps of the sender harness: the IrcNetwork of the network harness,  *)
(* the channel of its IrcSender and the IrcConnection machine that reads it *)

\* a call of IrcNetwork::send, as send_join_chan, send_part_chan and the
\* like make it; IrcSender::send notifies the machine
SendRequest ==
    \E msg \in SendMsgs :
        /\ Len(nacc) < MaxSends
        /\ LET r == SendWithConn(HarnessCtx(nnet, nq, nalive), msg, << >>)
           IN  /\ nnet' = r.C.net
               /\ nq' = r.C.q
               /\ nacc' = IF r.ok THEN Append(nacc, msg) ELSE nacc
               /\ nwake' = (nwake \/ r.ok)
        /\ UNCHANGED << nalive, ndebug, npanic, nlast, ncount, nsendq, nout,
                        routeVars, bufVars, logVars, sysVars >>

\* Protocol::wakeup of IrcConnection, through IrcNetConn::wakeup and action
SendWakeup ==
    /\ nalive
    /\ nwake
    /\ nsendq' = nsendq \o DrainRx(nq).msgs
    /\ nq' = DrainRx(nq).rest
    /\ nwake' = FALSE
    /\ UNCHANGED << nnet, nalive, ndebug, npanic, nlast, ncount, nout, nacc,
                    routeVars, bufVars, logVars, sysVars >>

\* Protocol::bytes_flushed of IrcConnection, which idle() asks for while
\* sendq is not empty
SendFlush ==
    /\ nalive
    /\ Len(nsendq) > 0
    /\ nsendq' = BytesFlushed(nsendq, nout).sendq
    /\ nout' = BytesFlushed(nsendq, nout).out
    /\ UNCHANGED << nnet, nq, nalive, ndebug, npanic, nlast, ncount, nwake, nacc,
                    routeVars, bufVars, logVars, sysVars >>

\* Protocol::bytes_read on a PING, which idle() waits for while sendq is
\* empty: IrcNetConn::recv answers with a PONG
SendRecvPing ==
    /\ nalive
    /\ Len(nsendq) = 0
    /\ Len(SelectSeq(nout, LAMBDA m : m.command = "PONG")) < MaxPings
    /\ nsendq' = Append(nsendq, Pong(N_Ping))
    /\ UNCHANGED << nnet, nq, nalive, ndebug, npanic, nlast, ncount, nwake, nout, nacc,
                    routeVars, bufVars, logVars, sysVars >>

\* the connection ends: Protocol::exception calls IrcNetConn::disconnect,
\* IrcConnection::fail does not; either way the machine is dropped with its
\* sendq and the receiving end of the channel
SendEnd ==
    \E failed \in BOOLEAN :
        /\ nalive
        /\ nnet' = IF failed THEN nnet
                   ELSE Disconnect(HarnessCtx(nnet, nq, nalive), << >>).net
        /\ nalive' = FALSE
        /\ nq' = << >>
        /\ nsendq' = << >>
        /\ nwake' = FALSE
        /\ UNCHANGED << ndebug, npanic, nlast, ncount, nout, nacc,
                        routeVars, bufVars, logVars, sysVars >>

----------------------------------------------------------------------------
(* Specifications *)

vars == << routeVars, bufVars, logVars, netVars, sysVars >>

InitRoute == RouteInit /\ BufIdle /\ LogIdle /\ NetIdle /\ SysIdle
NextRoute == Route /\ UNCHANGED << bufVars, logVars, netVars, sysVars >>
SpecRoute == InitRoute /\ [][NextRoute]_vars

InitCtcp == CtcpInit /\ BufIdle /\ LogIdle /\ NetIdle /\ SysIdle
NextCtcp ==
    \/ CtcpParse /\ UNCHANGED << bufVars, logVars, netVars, sysVars >>
    \/ CtcpFormat /\ UNCHANGED << bufVars, logVars, netVars, sysVars >>
SpecCtcp == InitCtcp /\ [][NextCtcp]_vars

InitBuf == BufInit /\ RouteIdle /\ LogIdle /\ NetIdle /\ SysIdle
NextBuf == BufHandleCmd /\ UNCHANGED << routeVars, logVars, netVars, sysVars >>
SpecBuf == InitBuf /\ [][NextBuf]_vars

\* the fan-out of buffer lines and alerts to the clients of a user with one
\* network connected
FanNets == {"n1"}
FanCreate == \E n \in FanNets : IrcCreate(n)
FanRecv == \E n \in FanNets, m \in FanMsgs : clock.tick < MaxLines /\ IrcRecv(n, m)
FanClientCreate == \E c \in ClientIds : ClientCreate(c)
FanClientAuth == \E c \in ClientIds : ClientAuth(c, TRUE)
FanClientWakeup == \E c \in ClientIds : ClientWakeup(c)
FanClientClose == \E c \in ClientIds : ClientClose(c)

Init == SysInit /\ disk = DiskWith({-1}) /\ RouteIdle /\ BufIdle /\ LogIdle /\ NetIdle
Next ==
    \/ FanCreate
    \/ FanRecv
    \/ FanClientCreate
    \/ FanClientAuth
    \/ FanClientWakeup
    \/ FanClientClose
Spec == Init /\ [][Next]_vars

\* the scrollback requests of one client of a user with two networks
ScrollClients == {1}
ScrollMsgs == {M_ChanHi}
\* #x has a log file of yesterday, or none of yesterday and one of the
\* oldest day
ScrollDisks == {DiskWith({-1}), DiskWith({-MaxDays})}
ScrollCreate == \E n \in NetIds : IrcCreate(n)
ScrollRecv == \E n \in NetIds, m \in ScrollMsgs : clock.tick < MaxLines /\ IrcRecv(n, m)
ScrollClientCreate == \E c \in ScrollClients : ClientCreate(c)
ScrollClientAuth == \E c \in ScrollClients : ClientAuth(c, TRUE)
ScrollClientFetchLogs ==
    \E c \in ScrollClients, n \in NetIds, targ \in FetchTargets, count \in 1..MaxCount :
        Len(fetches) < MaxFetch /\ ClientFetchLogs(c, n, targ, count)

InitScroll == SysInit /\ disk \in ScrollDisks /\ RouteIdle /\ BufIdle /\ LogIdle /\ NetIdle
NextScroll ==
    \/ ScrollCreate
    \/ ScrollRecv
    \/ ScrollClientCreate
    \/ ScrollClientAuth
    \/ ScrollClientFetchLogs
SpecScroll == InitScroll /\ [][NextScroll]_vars

\* one client of a user with one network connected: the lines it is sent as
\* they are pushed and the lines its scrollback requests are answered with
LiveCreate == \E n \in FanNets : IrcCreate(n)
LiveRecv == \E n \in FanNets, m \in ScrollMsgs : clock.tick < MaxLines /\ IrcRecv(n, m)
LiveClientCreate == \E c \in ScrollClients : ClientCreate(c)
LiveClientAuth == \E c \in ScrollClients : ClientAuth(c, TRUE)
LiveClientWakeup == \E c \in ScrollClients : ClientWakeup(c)
LiveClientFetchLogs ==
    \E c \in ScrollClients, n \in FanNets, targ \in FetchTargets, count \in 1..MaxCount :
        Len(fetches) < MaxLiveFetch /\ ClientFetchLogs(c, n, targ, count)

InitLive == SysInit /\ RouteIdle /\ BufIdle /\ LogIdle /\ NetIdle
NextLive ==
    \/ LiveCreate
    \/ LiveRecv
    \/ LiveClientCreate
    \/ LiveClientAuth
    \/ LiveClientWakeup
    \/ LiveClientFetchLogs
SpecLive == InitLive /\ [][NextLive]_vars

----------------------------------------------------------------------------
(* SpecLife: the connections of one network, one after another, with and     *)
(* without a NickServ password, each receiving messages until it ends.       *)

MaxLifeEvents == 7

\* the NetConfig of a network with a NickServ password
NetCfgPass == [NetCfg EXCEPT !.nickserv_pass = Some(S_c)]

L_Welcome == Message(Some(P_s), "RPL_WELCOME", << S_bo >>, Some(S_hi))
L_Notice == Message(Some(P_s), "NOTICE", << S_bo >>, Some(S_hi))
L_NoticeNoBody == Message(Some(P_s), "NOTICE", << S_bo >>, None)
L_UserNotice == Message(Some(P_a), "NOTICE", << S_x >>, Some(S_a))
L_Ping == Message(None, "PING", << S_x >>, Some(S_hi))
LifeMsgs == {L_Welcome, L_Notice, L_NoticeNoBody, L_UserNotice, L_Ping}

LifeMore == Len(ircHist["n1"]) < MaxLifeEvents

LifeCreate == LifeMore /\ IrcCreate("n1")
LifeRecv == \E m \in LifeMsgs : LifeMore /\ IrcRecv("n1", m)
LifeException == LifeMore /\ IrcException("n1")
LifeFail == LifeMore /\ IrcFail("n1")

InitLife ==
    /\ nets \in {[n \in NetIds |-> NewNetwork(n, cfg)] : cfg \in {NetCfg, NetCfgPass}}
    /\ disk = DiskWith({})
    /\ clock = [day |-> 0, tick |-> 0]
    /\ crashed = FALSE
    /\ conn = [n \in NetIds |-> "None"]
    /\ ircq = [n \in NetIds |-> << >>]
    /\ ircOut = [n \in NetIds |-> << >>]
    /\ uclients = << >>
    /\ ualerts = << >>
    /\ alertCmd = FALSE
    /\ spawned = << >>
    /\ cl = [c \in ClientIds |-> [st |-> "None", bufs |-> << >>]]
    /\ chan = [c \in ClientIds |-> << >>]
    /\ wire = [c \in ClientIds |-> << >>]
    /\ lastExec = [n |-> 0, posted |-> << >>, attached |-> << >>]
    /\ fetches = << >>
    /\ attachedAt = [c \in ClientIds |-> << >>]
    /\ ircHist = [n \in NetIds |-> << >>]
    /\ RouteIdle
    /\ BufIdle
    /\ LogIdle /\ NetIdle
NextLife ==
    \/ LifeCreate
    \/ LifeRecv
    \/ LifeException
    \/ LifeFail
SpecLife == InitLife /\ [][NextLife]_vars

\* the runs of the core over one buffer of one network: lines are pushed,
\* days pass, the core is restarted and the lines are looked up
InitLog == LogInit /\ RouteIdle /\ BufIdle /\ NetIdle /\ SysIdle
NextLog ==
    \/ LogPush
    \/ LogNextDay
    \/ LogRestart
    \/ LogGetLine
SpecLog == InitLog /\ [][NextLog]_vars

\* the calls made on one network
InitNet == NetHarnessInit /\ RouteIdle /\ BufIdle /\ LogIdle /\ SysIdle
NextNet ==
    \/ NetHandleMsg
    \/ NetSendChatMsg
    \/ NetRegisterConn
    \/ NetDisconnect
SpecNet == InitNet /\ [][NextNet]_vars

\* clients that authenticate, or fail to, while one network receives messages
MaxAuthLines == 2
AuthMsgs ==
    {[t |-> "Authenticate", uid |-> TheUser, pass |-> "pw"],
     [t |-> "Authenticate", uid |-> TheUser, pass |-> "no"],
     [t |-> "Authenticate", uid |-> TheUser, pass |-> ""],
     [t |-> "Authenticate", uid |-> "v", pass |-> "pw"],
     [t |-> "ListNets"]}
AuthIrcCreate == \E n \in FanNets : IrcCreate(n)
AuthIrcRecv ==
    \E n \in FanNets, m \in FanMsgs : clock.tick < MaxAuthLines /\ IrcRecv(n, m)
AuthClientCreate == \E c \in ClientIds : ClientCreate(c)
AuthClientMsgRecv == \E c \in ClientIds, msg \in AuthMsgs : ClientMsgRecvAuthing(c, msg)
AuthClientWakeup == \E c \in ClientIds : ClientWakeup(c)
AuthClientWakeupAuthing == \E c \in ClientIds : ClientWakeupAuthing(c)

InitAuth == SysInit /\ disk = DiskWith({-1}) /\ RouteIdle /\ BufIdle /\ LogIdle /\ NetIdle
NextAuth ==
    \/ AuthIrcCreate
    \/ AuthIrcRecv
    \/ AuthClientCreate
    \/ AuthClientMsgRecv
    \/ AuthClientWakeup
    \/ AuthClientWakeupAuthing
SpecAuth == InitAuth /\ [][NextAuth]_vars

\* one network whose connection receives CTCP queries and notices
MaxQueryEvents == 4
Q_Version == Message(Some(P_a), "PRIVMSG", << S_bo >>, Some(B_Version))
Q_VersionNotice == Message(Some(P_a), "NOTICE", << S_bo >>, Some(B_VersionReply))
Q_UserNotice == Message(Some(P_a), "NOTICE", << S_x >>, Some(S_hi))
QueryMsgs == {L_Welcome, N_ServerNotice, Q_Version, Q_VersionNotice, Q_UserNotice}
QueryIrcCreate == \E n \in FanNets : IrcCreate(n)
QueryIrcRecv ==
    \E n \in FanNets, m \in QueryMsgs : clock.tick < MaxQueryEvents /\ IrcRecv(n, m)

InitQuery == SysInit /\ disk = DiskWith({-1}) /\ RouteIdle /\ BufIdle /\ LogIdle /\ NetIdle
NextQuery ==
    \/ QueryIrcCreate
    \/ QueryIrcRecv
SpecQuery == InitQuery /\ [][NextQuery]_vars

\* the clients of a user with one network, whose buffers are created while
\* clients attach; the clients connect once the network is connected
MaxAnnEvents == 3
AnnMsgs == {N_MyInfo, N_JoinBoX, N_ChanHi, N_ServerNotice}
AnnIrcCreate == \E n \in FanNets : IrcCreate(n)
AnnIrcRecv == \E n \in FanNets, m \in AnnMsgs : clock.tick < MaxAnnEvents /\ IrcRecv(n, m)
AnnClientCreate == \E c \in ClientIds, n \in FanNets : conn[n] # "None" /\ ClientCreate(c)
AnnClientAuth == \E c \in ClientIds : ClientAuth(c, TRUE)
AnnClientWakeup == \E c \in ClientIds : ClientWakeup(c)

InitAnn == SysInit /\ disk = DiskWith({-1}) /\ RouteIdle /\ BufIdle /\ LogIdle /\ NetIdle
NextAnn ==
    \/ AnnIrcCreate
    \/ AnnIrcRecv
    \/ AnnClientCreate
    \/ AnnClientAuth
    \/ AnnClientWakeup
SpecAnn == InitAnn /\ [][NextAnn]_vars

\* SpecCursor: two clients of a user attach, its two networks connect, and
\* then the clients ask for scrollback, of no line too, while lines arrive on
\* the channel #x of both networks and on the network buffer of n1
MaxCurEvents == 3

CurCounts == {0, 1}
CurMsgs == {<< "n1", M_ChanHi >>, << "n1", N_ServerNotice >>, << "n2", M_ChanHi >>}
CurTargets == {TargChannel(S_x), TargNetwork}
CurAttached == \A c \in ClientIds : cl[c].st = "Connected"
CurReady == \A n \in NetIds : conn[n] # "None"
\* each line received advances the clock by one tick
CurMore == clock.tick + Len(fetches) < MaxCurEvents

CurIrcCreate ==
    \E n \in NetIds :
        CurAttached /\ (n = "n2" => conn["n1"] # "None") /\ IrcCreate(n)
CurIrcRecv == \E nm \in CurMsgs : CurReady /\ CurMore /\ IrcRecv(nm[1], nm[2])
CurClientCreate == \E c \in ClientIds : ClientCreate(c)
CurClientAuth == \E c \in ClientIds : ClientAuth(c, TRUE)
CurClientFetchLogs ==
    \E c \in ClientIds, n \in NetIds, targ \in CurTargets, count \in CurCounts :
        CurReady /\ CurMore /\ ClientFetchLogs(c, n, targ, count)

InitCursor ==
    SysInit /\ disk = DiskWith({-1}) /\ RouteIdle /\ BufIdle /\ LogIdle /\ NetIdle
NextCursor ==
    \/ CurIrcCreate
    \/ CurIrcRecv
    \/ CurClientCreate
    \/ CurClientAuth
    \/ CurClientFetchLogs
SpecCursor == InitCursor /\ [][NextCursor]_vars

\* SpecWrap: messages are sent and alerts posted through handles wrapped
\* around a base handle
InitWrap ==
    /\ WrapInit
    /\ hbuf = NewBuffer(<< "n" >>, TargNetwork, NoFiles, 0)
    /\ hnick = S_Empty
    /\ hu = NewHandle
    /\ hcmds = 0
    /\ hlast = None
    /\ hsince = [ok |-> TRUE, bodies |-> << >>]
    /\ RouteIdle
    /\ LogIdle
    /\ NetIdle
    /\ SysIdle
NextWrap ==
    \/ WrapSendMsg
    \/ WrapPostAlert
SpecWrap == InitWrap /\ [][NextWrap]_vars

\* SpecSend: messages are handed to IrcNetwork::send while the connection
\* machine of the network, created and registered, wakes up, writes its
\* sendq, answers a PING and, at some point, ends.  The machine is woken after
\* a notification and the transport flushes its output as long as the
\* connection is up.

InitSend ==
    /\ nnet = RegisterConn(HarnessCtx(NewNetwork("n1", NetCfg), << >>, FALSE)).net
    /\ nq = << >>
    /\ nalive = TRUE
    /\ ndebug = FALSE
    /\ npanic = FALSE
    /\ nlast = NoOp
    /\ ncount = 0
    /\ nwake = FALSE
    /\ nsendq = << Message(None, "USER", << NetCfg.username, << "0" >>, << "*" >> >>,
                           Some(NetCfg.realname)),
                   Message(None, "NICK", << NetCfg.nick >>, None) >>
    /\ nout = << >>
    /\ nacc = << >>
    /\ RouteIdle
    /\ BufIdle
    /\ LogIdle
    /\ SysIdle
NextSend ==
    \/ SendRequest
    \/ SendWakeup
    \/ SendFlush
    \/ SendRecvPing
    \/ SendEnd
SpecSend ==
    InitSend /\ [][NextSend]_vars /\ WF_vars(SendWakeup) /\ WF_vars(SendFlush)

\* SpecDisk: lines are pushed to one buffer while the file system fails now
\* and then; days pass, and the core is restarted
InitDisk == LogInit /\ RouteIdle /\ BufIdle /\ NetIdle /\ SysIdle
NextDisk ==
    \/ DiskPush
    \/ LogNextDay
    \/ LogRestart
SpecDisk == InitDisk /\ [][NextDisk]_vars

\* SpecReq: two clients of one user attach and then send requests to network
\* n1 while its connection comes up, receives messages and ends
MaxReqs == 1
MaxReqIrc == 3

R_SendX == [t |-> "BufMsg", targ |-> TargChannel(S_x), msg |-> S_hi, kind |-> "PrivMsg"]
R_SendNet == [t |-> "BufMsg", targ |-> TargNetwork, msg |-> S_hi, kind |-> "Notice"]
R_Join == [t |-> "JoinChan", chan |-> S_y]
R_Part == [t |-> "PartChan", chan |-> S_x, optmsg |-> None]
R_Nick == [t |-> "ChangeNick", nick |-> S_c]
Requests == {R_SendX, R_SendNet, R_Join, R_Part, R_Nick}
ReqNets == {"n1"}
ReqMsgs == {N_MyInfo, N_ChanHi, N_ServerNotice}

\* the requests handled so far: each request and each message received
\* advances the clock by one tick
ReqsDone ==
    clock.tick - Len(SelectSeq(ircHist["n1"], LAMBDA h : h.e = "recv"))
ReqMore == ReqsDone < MaxReqs
ReqIrcMore == Len(ircHist["n1"]) < MaxReqIrc
ReqAttached == \A c \in ClientIds : cl[c].st = "Connected"

ReqIrcCreate == ReqAttached /\ ReqIrcMore /\ IrcCreate("n1")
ReqIrcRecv == \E m \in ReqMsgs : ReqAttached /\ ReqIrcMore /\ IrcRecv("n1", m)
ReqIrcEnd == ReqAttached /\ ReqIrcMore /\ (IrcException("n1") \/ IrcFail("n1"))
ReqClientCreate == \E c \in ClientIds : ClientCreate(c)
ReqClientAuth == \E c \in ClientIds : ClientAuth(c, TRUE)
ReqClientRequest ==
    \E c \in ClientIds, nid \in ReqNets, req \in Requests :
        ReqAttached /\ ReqMore /\ ClientRequest(c, nid, req)

InitReq ==
    /\ SysInit
    /\ disk = DiskWith({})
    /\ RouteIdle
    /\ BufIdle
    /\ LogIdle
    /\ nnet = NewNetwork("n1", NetCfg)
    /\ nq = << >>
    /\ nalive = FALSE
    /\ ndebug \in BOOLEAN
    /\ npanic = FALSE
    /\ nlast = NoOp
    /\ ncount = 0
    /\ SendIdle
NextReq ==
    \/ ReqIrcCreate
    \/ ReqIrcRecv
    \/ ReqIrcEnd
    \/ ReqClientCreate
    \/ ReqClientAuth
    \/ ReqClientRequest
SpecReq == InitReq /\ [][NextReq]_vars

----------------------------------------------------------------------------
(* Claims about the router (SpecRoute) *)

\* the sender of a message whose prefix is one of the user prefixes
PrefixUser(msg) == IF msg.prefix = Some(P_a) THEN U_a ELSE U_bo
HasUserPrefix(msg) == msg.prefix \in {Some(P_a), Some(P_bo)}

\* the bodies that are CTCP messages with tag ACTION, and with another tag
ActionBodies == {Some(B_Action), Some(B_action), Some(B_ActionOpen)}
OtherCtcpBodies == {Some(B_Version), Some(B_Delim)}

\* a JOIN, PART, KICK, PRIVMSG, NOTICE or CTCP ACTION that carries a target
HasExplicitTarget(msg) ==
    CASE msg.command = "JOIN" -> Len(msg.args) = 1 \/ IsSome(msg.body)
      [] msg.command = "PART" -> Len(msg.args) = 1
      [] msg.command = "KICK" -> Len(msg.args) = 2
      [] msg.command \in {"PRIVMSG", "NOTICE"} ->
           Len(msg.args) = 1 /\ IsSome(msg.body) /\ msg.body \notin OtherCtcpBodies
      [] OTHER -> FALSE

ExplicitTarget(msg) ==
    IF msg.command = "JOIN" /\ Len(msg.args) # 1 THEN Unwrap(msg.body) ELSE msg.args[1]

\* C8: a JOIN, PART, KICK, PRIVMSG, NOTICE or CTCP ACTION from a user with
\* explicit target t is routed to Private(sender) when t is the current nick
\* and to Channel(t) otherwise; no message with one of these commands is ever
\* routed to Channel(current nick).
C8_TargetRouting ==
    rres # Pending =>
        /\ (HasUserPrefix(rmsg) /\ HasExplicitTarget(rmsg)) =>
              IF ExplicitTarget(rmsg) = rnick
              THEN rres.t = "Private" /\ rres.user = PrefixUser(rmsg)
              ELSE rres.t = "Channel" /\ rres.chan = ExplicitTarget(rmsg)
        /\ rmsg.command \in {"JOIN", "PART", "KICK", "PRIVMSG", "NOTICE"} =>
              ~(rres.t = "Channel" /\ rres.chan = rnick)

\* a PRIVMSG addressed to the current nick has been routed to the sender's
\* private buffer
C8_Witness ==
    /\ rres.t = "Private"
    /\ rmsg.command = "PRIVMSG"
    /\ rmsg.args = << S_bo >>
    /\ rnick = S_bo
    /\ rres.user = U_a

\* C9: route_message returns a routed command or none for every message; it
\* never panics.
C9_NeverPanics ==
    rres.t \in {"Pending", "None", "Channel", "Private", "NetBuffer", "Network"}

\* C10: a PRIVMSG or NOTICE from a user whose body is a CTCP message with a
\* tag other than ACTION is routed to the network as a CtcpQuery when carried
\* by a PRIVMSG and as a CtcpReply when carried by a NOTICE, with the
\* original destination.
C10_CtcpQueryReply ==
    (/\ rres # Pending
     /\ HasUserPrefix(rmsg)
     /\ rmsg.command \in {"PRIVMSG", "NOTICE"}
     /\ Len(rmsg.args) = 1
     /\ rmsg.body \in OtherCtcpBodies) =>
        /\ rres.t = "Network"
        /\ rres.cmd.c = (IF rmsg.command = "PRIVMSG" THEN "CtcpQuery" ELSE "CtcpReply")
        /\ rres.cmd.dest = rmsg.args[1]
        /\ rres.cmd.user = PrefixUser(rmsg)

\* the text of the ACTION bodies the router is handed: "hi" for
\* "\u{1}ACTION hi\u{1}" and for "\u{1}ACTION hi", "hi bo" for
\* "\u{1}action hi bo\u{1}"
ActionText(body) ==
    IF body = Some(B_action) THEN S_hi \o << " " >> \o S_bo ELSE S_hi

\* the message with its body replaced by the plain text "hi"
PlainOf(msg) == [msg EXCEPT !.body = Some(S_hi)]

\* C11: a PRIVMSG from a user whose body is a CTCP message with tag ACTION, in
\* any letter case, is routed as the buffer command ACTION, with the CTCP
\* arguments joined by single spaces as its text, to the buffer a plain
\* PRIVMSG with the same sender and target is routed to, and never to the
\* network.
C11_ActionRouting ==
    (/\ rres # Pending
     /\ HasUserPrefix(rmsg)
     /\ rmsg.command = "PRIVMSG"
     /\ Len(rmsg.args) = 1
     /\ rmsg.body \in ActionBodies) =>
        LET plain == RouteMessage(PlainOf(rmsg), rnick)
        IN  /\ rres.t \in {"Channel", "Private"}
            /\ rres.t = plain.t
            /\ rres.t = "Channel" => rres.chan = plain.chan
            /\ rres.t = "Private" => rres.user = plain.user
            /\ rres.cmd = [c |-> "ACTION", user |-> PrefixUser(rmsg),
                           msg |-> ActionText(rmsg.body)]

\* a PRIVMSG to the current nick whose body is a lower-case CTCP action with
\* two arguments has been routed to the sender's private buffer as an ACTION
C11_Witness ==
    /\ rres.t = "Private"
    /\ rmsg.command = "PRIVMSG"
    /\ rmsg.body = Some(B_action)
    /\ rres.cmd.c = "ACTION"
    /\ rres.cmd.msg = S_hi \o << " " >> \o S_bo

----------------------------------------------------------------------------
(* Claims about Buffer::handle_cmd (SpecBuf) *)

\* the names listed by a sequence of RPL_NAMREPLY bodies
NamesOfAll(bodies) == UNION {NamesOf(bodies[i]) : i \in 1..Len(bodies)}

\* C4: the RPL_NAMREPLYs handled since the last RPL_ENDOFNAMES accumulate: the
\* presence set is the union of the names of all their bodies.
C4_NamesAccumulate ==
    (hsince.ok /\ Len(hsince.bodies) > 0) => hbuf.users = NamesOfAll(hsince.bodies)

\* the positions in the handle's call record of the alerts and of the NewLines
AlertOps == {i \in 1..Len(hu.ops) : hu.ops[i].op = "post_alert"}
NewLinesOps == {i \in 1..Len(hu.ops) : hu.ops[i].op = "send_msg" /\ hu.ops[i].v.t = "NewLines"}

\* s occurs in body: body = pre \o s \o post
OccursIn(s, body) ==
    \E i \in 1..(Len(body) + 1) :
        /\ i + Len(s) - 1 <= Len(body)
        /\ \A k \in 1..Len(s) : body[i + k - 1] = s[k]

\* C5: handling a PRIVMSG posts exactly one ping alert in a Channel buffer if
\* the body contains the current nick and none otherwise, and exactly one
\* alert in a Private buffer; the alert is posted before the NewLines event
\* of the line is sent.
C5_PrivmsgAlerts ==
    (IsSome(hlast) /\ Unwrap(hlast).c = "PRIVMSG") =>
        /\ Cardinality(NewLinesOps) = 1
        /\ Len(hu.alerts) = Cardinality(AlertOps)
        /\ \A i \in AlertOps : \A j \in NewLinesOps : i < j
        /\ hbuf.id.t = "Channel" =>
              IF OccursIn(hnick, Unwrap(hlast).msg)
              THEN hu.alerts = << AlertPing(hbuf.nid, hbuf.id.name, Unwrap(hlast).user.nick) >>
              ELSE hu.alerts = << >>
        /\ hbuf.id.t = "Private" =>
              hu.alerts = << AlertPrivmsg(hbuf.nid, hbuf.id.name, Unwrap(hlast).user.nick) >>

\* a channel PRIVMSG containing the nick has posted its ping alert
C5_Witness ==
    /\ IsSome(hlast) /\ Unwrap(hlast).c = "PRIVMSG"
    /\ hbuf.id.t = "Channel"
    /\ hnick = S_bo
    /\ Unwrap(hlast).msg = S_abo
    /\ Len(hu.alerts) = 1

----------------------------------------------------------------------------
(* Claims about the fan-out to clients and their scrollback *)

\* m is the message of kind t of buffer targ of network nid
IsBufMsg(m, nid, targ, t) ==
    /\ m.t = "NetMsg"
    /\ m.nid = nid
    /\ m.msg.t = "BufMsg"
    /\ m.msg.targ = targ
    /\ m.msg.msg.t = t

\* the lines of the messages of kind t of buffer targ of network nid in a
\* sequence of client messages, in the order of the sequence
RECURSIVE LinesOf(_, _, _, _)
LinesOf(msgs, nid, targ, t) ==
    IF Len(msgs) = 0 THEN << >>
    ELSE (IF IsBufMsg(Head(msgs), nid, targ, t) THEN Head(msgs).msg.msg.lines ELSE << >>)
         \o LinesOf(Tail(msgs), nid, targ, t)

NoDup(q) == \A i, j \in 1..Len(q) : i # j => q[i] # q[j]
IsPrefix(p, q) == Len(p) <= Len(q) /\ p = SubSeq(q, 1, Len(p))

\* C1: no line of a buffer is written to a client's socket more than once,
\* counting the lines of its NewLines and of its Scrollback messages together
C1_NoLineTwice ==
    \A c \in ClientIds, n \in NetIds, targ \in FetchTargets :
        NoDup(LinesOf(wire[c], n, targ, "NewLines")
              \o LinesOf(wire[c], n, targ, "Scrollback"))

\* the line of a buffer at an index: the front from 0 upwards, the back from
\* -1 downwards
LineAt(buf, idx) == IF idx >= 0 THEN buf.front[idx + 1] ELSE buf.back[-idx]

\* requests i < j of fetches are successive requests of one client on one
\* buffer
Successive(i, j) ==
    /\ i < j
    /\ fetches[i].found /\ fetches[j].found
    /\ fetches[i].c = fetches[j].c
    /\ fetches[i].nid = fetches[j].nid
    /\ fetches[i].targ = fetches[j].targ
    /\ \A k \in (i + 1)..(j - 1) :
          ~(fetches[k].found /\ fetches[k].c = fetches[j].c
            /\ fetches[k].nid = fetches[j].nid /\ fetches[k].targ = fetches[j].targ)

\* C2: a FetchLogs(count) served from cursor c returns the n <= count lines
\* at c-1, ..., c-n in that order, n < count only when the next index was
\* not found, and leaves the cursor at c-n; successive requests of a client
\* on a buffer continue from where the one before stopped
C2_FetchContiguous ==
    \A j \in 1..Len(fetches) :
        LET f == fetches[j]
            n == Len(f.lines)
        IN  f.found =>
              /\ n <= f.count
              /\ n < f.count => f.miss
              /\ f.after = f.cur - n
              /\ \A i \in 1..n : f.lines[i] = LineAt(nets[f.nid].bufs[f.targ], f.cur - i)
              /\ \A i \in 1..Len(fetches) : Successive(i, j) => f.cur = fetches[i].after

\* the front length of a buffer when client c registered, 0 for a buffer
\* created later
AttachedAt(c, n, targ) ==
    IF n \in DOMAIN attachedAt[c] /\ targ \in DOMAIN attachedAt[c][n]
    THEN attachedAt[c][n][targ]
    ELSE 0

\* the lines pushed to a buffer since client c registered
PushedSince(c, n, targ) ==
    LET front == nets[n].bufs[targ].front
    IN  SubSeq(front, AttachedAt(c, n, targ) + 1, Len(front))

\* C3: the lines of the NewLines a client has been written are, in order and
\* without a gap, the first of the lines pushed to the buffer since the
\* client registered; for a client still connected the rest of them is in
\* its channel, in order
C3_NewLinesInOrder ==
    \A c \in ClientIds, n \in NetIds :
        \A targ \in DOMAIN nets[n].bufs :
            /\ IsPrefix(LinesOf(wire[c], n, targ, "NewLines"), PushedSince(c, n, targ))
            /\ cl[c].st = "Connected" =>
                  LinesOf(wire[c] \o chan[c], n, targ, "NewLines") = PushedSince(c, n, targ)

\* two clients are connected, one registered before the first line of #x and
\* has been written two lines, the other registered after it and has been
\* written one
C3_Witness ==
    \E c, d \in ClientIds :
        /\ cl[c].st = "Connected" /\ cl[d].st = "Connected"
        /\ TargChannel(S_x) \in DOMAIN nets["n1"].bufs
        /\ AttachedAt(c, "n1", TargChannel(S_x)) = 0
        /\ AttachedAt(d, "n1", TargChannel(S_x)) = 1
        /\ Len(LinesOf(wire[c], "n1", TargChannel(S_x), "NewLines")) = 2
        /\ Len(LinesOf(wire[d], "n1", TargChannel(S_x), "NewLines")) = 1

\* C6: when an update handle is executed with clients attached, each of them
\* is sent, in that execution, an Alerts message that holds every alert
\* posted to the handle
C6_AlertsDelivered ==
    [][lastExec'.n # lastExec.n =>
          \A c \in Range(lastExec'.attached) :
              \A a \in Range(lastExec'.posted) :
                  \E k \in (Len(chan[c]) + 1)..Len(chan'[c]) :
                      /\ chan'[c][k].t = "Alerts"
                      /\ a \in Range(chan'[c][k].alerts)]_vars

\* C7: once an update handle has been executed with no client attached and
\* no alert command configured, the alerts posted to it are in the alerts
\* of the UserHandle
C7_AlertsRetained ==
    (lastExec.n > 0 /\ Len(lastExec.attached) = 0 /\ ~alertCmd) =>
        \A a \in Range(lastExec.posted) : a \in Range(ualerts)

----------------------------------------------------------------------------
(* Claims about the connection lifecycle (SpecLife) *)

\* the step is the receipt of a message by the connection of n1
IsRecvStep ==
    /\ Len(ircHist'["n1"]) = Len(ircHist["n1"]) + 1
    /\ ircHist'["n1"][Len(ircHist'["n1"])].e = "recv"
RecvdMsg == ircHist'["n1"][Len(ircHist'["n1"])].msg

PassConfigured == IsSome(nets["n1"].cfg.nickserv_pass)

\* C12: the lifecycle of a connection only moves forward, Identifying to
\* Authing to Connected or Identifying to Connected: a connection starts in
\* Identifying, leaves it on the welcome numeric for Authing exactly when a
\* NickServ password is configured and for Connected otherwise, leaves
\* Authing only for Connected, and never leaves Connected while it lasts.
C12_LifecycleForward ==
    [][/\ conn["n1"] = "None" => conn'["n1"] \in {"None", "Identifying"}
       /\ conn["n1"] = "Identifying" =>
             /\ conn'["n1"] \in {"None", "Identifying", "Authing", "Connected"}
             /\ conn'["n1"] = "Authing" => PassConfigured
             /\ conn'["n1"] = "Connected" => ~PassConfigured
             /\ (IsRecvStep /\ RecvdMsg.command = "RPL_WELCOME" /\ ~crashed') =>
                   conn'["n1"] = IF PassConfigured THEN "Authing" ELSE "Connected"
       /\ conn["n1"] = "Authing" => conn'["n1"] \in {"None", "Authing", "Connected"}
       /\ conn["n1"] = "Connected" => conn'["n1"] \in {"None", "Connected"}]_vars

\* a connection with a NickServ password has reached Connected, and so has
\* gone through Authing
C12_Witness ==
    /\ PassConfigured
    /\ conn["n1"] = "Connected"
    /\ \E i \in 1..Len(ircHist["n1"]) :
          ircHist["n1"][i].e = "recv" /\ ircHist["n1"][i].msg.command = "NOTICE"

\* the JOINs and the NickServ identify messages written to the socket of the
\* connection of n1 created last
JoinsOf(out) == SelectSeq(out, LAMBDA m : m.command = "JOIN")
IdentifiesOf(out) == SelectSeq(out, LAMBDA m : m.command = "PRIVMSG")
ConfiguredJoin == [prefix |-> << >>, command |-> "JOIN", args |-> << S_x >>, body |-> << >>]

\* the events of n1 since its connection created last
SinceCreate ==
    LET h == ircHist["n1"]
        creates == {i \in 1..Len(h) : h[i].e = "create"}
        last == IF creates = {} THEN 0 ELSE CHOOSE i \in creates : \A j \in creates : j <= i
    IN  SubSeq(h, last + 1, Len(h))
Welcomed ==
    \E i \in 1..Len(SinceCreate) :
        SinceCreate[i].e = "recv" /\ SinceCreate[i].msg.command = "RPL_WELCOME"

\* C13: a connection has sent no JOIN while it is Identifying or Authing and
\* exactly one, for the configured channels, once it is Connected; the JOIN
\* is written in the very step that moves it to Connected and only after the
\* welcome numeric; it sends at most one NickServ identify PRIVMSG, and none
\* when no password is configured.
C13_JoinOnce ==
    /\ [](/\ Len(JoinsOf(ircOut["n1"])) <= 1
          /\ \A i \in 1..Len(JoinsOf(ircOut["n1"])) : JoinsOf(ircOut["n1"])[i] = ConfiguredJoin
          /\ conn["n1"] \in {"Identifying", "Authing"} => Len(JoinsOf(ircOut["n1"])) = 0
          /\ conn["n1"] = "Connected" => Len(JoinsOf(ircOut["n1"])) = 1
          /\ Len(JoinsOf(ircOut["n1"])) = 1 => Welcomed
          /\ Len(IdentifiesOf(ircOut["n1"])) <= 1
          /\ Len(IdentifiesOf(ircOut["n1"])) = 1 => (PassConfigured /\ Welcomed))
    /\ [][(conn["n1"] # "Connected" /\ conn'["n1"] = "Connected")
             <=> Len(JoinsOf(ircOut'["n1"])) = Len(JoinsOf(ircOut["n1"])) + 1]_vars

\* the second connection of the network is Connected and keeps receiving
\* NOTICEs
C13_Witness ==
    /\ conn["n1"] = "Connected"
    /\ Len(JoinsOf(ircOut["n1"])) = 1
    /\ Len(SinceCreate) < Len(ircHist["n1"]) - 1
    /\ \E i \in 2..Len(SinceCreate) :
          /\ SinceCreate[i].e = "recv" /\ SinceCreate[i].msg.command = "NOTICE"
          /\ SinceCreate[i - 1].e = "recv" /\ SinceCreate[i - 1].msg.command = "RPL_WELCOME"

\* C14: when the connection is Authing, the receipt of any NOTICE, with or
\* without a body, writes the JOIN for the configured channels and moves
\* the connection to Connected.
C14_AnyNoticeEndsAuthing ==
    [][(conn["n1"] = "Authing" /\ IsRecvStep /\ RecvdMsg.command = "NOTICE") =>
          /\ conn'["n1"] = "Connected"
          /\ ircOut'["n1"] = Append(ircOut["n1"], ConfiguredJoin)]_vars

\* the lines held in the fronts of the buffers of a network
RECURSIVE SumFront(_, _)
SumFront(bufs, targs) ==
    IF targs = {} THEN 0
    ELSE LET targ == CHOOSE x \in targs : TRUE
         IN  Len(bufs[targ].front) + SumFront(bufs, targs \ {targ})
LinesHeld(net) == SumFront(net.bufs, DOMAIN net.bufs)

\* C15: in each of the states Identifying, Authing and Connected a received
\* PING is answered with exactly one PONG of the same arguments and body and
\* changes neither the network nor the state of the connection; any other
\* message, the ones that end Identifying and Authing included, is not
\* answered with a PONG and is handled by the network once: the network
\* afterwards is the one handle_msg leaves, and a NOTICE with a body has
\* added exactly one line to its buffers.
C15_DispatchOnce ==
    [][(IsRecvStep /\ ~crashed') =>
          IF RecvdMsg.command = "PING"
          THEN /\ ircOut'["n1"] =
                     Append(ircOut["n1"],
                            [prefix |-> << >>, command |-> "PONG",
                             args |-> RecvdMsg.args, body |-> RecvdMsg.body])
               /\ nets' = nets
               /\ conn' = conn
          ELSE /\ \A i \in 1..Len(ircOut'["n1"]) : i > Len(ircOut["n1"]) =>
                     ircOut'["n1"][i].command # "PONG"
               /\ (RecvdMsg.command = "NOTICE" /\ IsSome(RecvdMsg.body)) =>
                     LinesHeld(nets'["n1"]) = LinesHeld(nets["n1"]) + 1
               /\ nets'["n1"] = HandleMsg(NetCtx("n1"), RecvdMsg, disk["n1"], clock,
                                          << WrapNet("n1") >>).net]_vars

\* a PING has been answered in each of the three states, and the NOTICE that
\* ended Authing has left its line
C15_Witness ==
    /\ conn["n1"] = "Connected"
    /\ PassConfigured
    /\ Len(SelectSeq(ircOut["n1"], LAMBDA m : m.command = "PONG")) = 3
    /\ LinesHeld(nets["n1"]) = 1
    /\ \E i \in 1..Len(ircOut["n1"]) :
          /\ ircOut["n1"][i].command = "PONG"
          /\ \E j \in 1..(i - 1) : ircOut["n1"][j].command = "JOIN"
    /\ \E i \in 1..Len(ircOut["n1"]) :
          /\ ircOut["n1"][i].command = "PONG"
          /\ \E j \in 1..(i - 1) : ircOut["n1"][j].command = "PRIVMSG"
          /\ \E j \in (i + 1)..Len(ircOut["n1"]) : ircOut["n1"][j].command = "JOIN"
    /\ \E i \in 1..Len(ircOut["n1"]) :
          /\ ircOut["n1"][i].command = "PONG"
          /\ \E j \in (i + 1)..Len(ircOut["n1"]) : ircOut["n1"][j].command = "PRIVMSG"

\* the last event of the connections of n1
LastEvent == ircHist["n1"][Len(ircHist["n1"])]

\* C16: once a connection of the network has ended, by an exception or
\* fatal error of the transport or by a failure to read, parse or write a
\* message, the network holds no sender handle and Connection(false) has
\* been sent to the clients; and the register_conn of the next connection
\* succeeds.
C16_EndReleasesSender ==
    Len(ircHist["n1"]) > 0 =>
        /\ LastEvent.e \in {"exception", "fail"} =>
              /\ ~nets["n1"].conn
              /\ \E i \in 1..Len(LastEvent.sent) :
                    LastEvent.sent[i] =
                        [t |-> "NetMsg", nid |-> "n1",
                         msg |-> [t |-> "Connection", connected |-> FALSE]]
        /\ LastEvent.e # "panic"

----------------------------------------------------------------------------
(* Claims about the log of a buffer (SpecLog) *)

\* the number of lines in the log files of the days up to day
RECURSIVE LinesUpTo(_, _, _)
LinesUpTo(files, days, day) ==
    IF days = {} THEN 0
    ELSE LET d == CHOOSE x \in days : TRUE
         IN  (IF d <= day THEN Len(files[d]) ELSE 0) + LinesUpTo(files, days \ {d}, day)

\* C17: a call get_line(idx) with idx < last_idx() answers not found only
\* if the log files of the days not read yet hold fewer lines than are
\* missing to reach idx.
C17_PagesUntilResolved ==
    (lgot.called /\ lgot.idx < lgot.last_idx /\ lgot.line = None) =>
        LinesUpTo(lbuf.log.files, DOMAIN lbuf.log.files, lgot.cursor)
            < lgot.last_idx - lgot.idx

LogLines(files) == UNION {Range(files[d]) : d \in DOMAIN files}
UnreadLines(log) ==
    UNION {Range(log.files[d]) : d \in {x \in DOMAIN log.files : x <= log.next_read_day}}
TimeLeq(s, t) == s.day < t.day \/ (s.day = t.day /\ s.tick <= t.tick)

\* C19: a line appended with push_line in an earlier run of the core is,
\* once the Buffer has been constructed again, on the same day or on a later
\* one, either in back, with all its fields, or in a log file get_line has
\* still to read.
C19_PushedLinesComeBack ==
    \A line \in LogLines(lbuf.log.files) :
        \/ line \in Range(lbuf.front)
        \/ line \in Range(lbuf.back)
        \/ line \in UnreadLines(lbuf.log)

\* the line of a buffer at an index, in back or in front
LineAtIdx(buf, i) == IF i < 0 THEN buf.back[-i] ELSE buf.front[i + 1]

C21_SequenceIds ==
    \A i \in 1..Len(lbuf.front) :
        /\ "id" \in DOMAIN lbuf.front[i]
        /\ \A j \in 1..(i - 1) : lbuf.front[j].id < lbuf.front[i].id

----------------------------------------------------------------------------
(* Claims about a network and its buffers (SpecNet) *)

\* the step is a call of handle_msg that returned
IsHandleMsgStep ==
    ncount' = ncount + 1 /\ nlast'.op = "handle_msg" /\ ~npanic'
\* the nick of the sender of a message of the harness
SenderNick(m) == IF m.prefix = Some(P_a) THEN S_a ELSE S_bo
\* the user a PART, KICK or QUIT is about, and the buffers it is applied to
Leaver(m) == IF m.command = "KICK" THEN m.args[2] ELSE SenderNick(m)
LeftBufs(m) ==
    IF m.command = "QUIT"
    THEN {targ \in DOMAIN nnet.bufs : Leaver(m) \in nnet.bufs[targ].users}
    ELSE {TargChannel(m.args[1])}
JoinedBefore(targ) == targ \in DOMAIN nnet.bufs /\ nnet.bufs[targ].joined
UsersBefore(targ) == IF targ \in DOMAIN nnet.bufs THEN nnet.bufs[targ].users ELSE {}
StateMsg(targ, joined) ==
    [t |-> "BufMsg", targ |-> targ, msg |-> [t |-> "State", joined |-> joined]]

\* C22: once a PART by the own nick, a KICK of the own nick or a QUIT by the
\* own nick has been applied to a buffer, the buffer is not joined and
\* State{joined: false} has been sent for it; when the event is about another
\* nick the joined flag is as before, no State is sent and that nick alone
\* has left the presence set.
C22_OwnDeparture ==
    [][(IsHandleMsgStep /\ nlast'.arg.command \in {"PART", "KICK", "QUIT"}) =>
          \A targ \in LeftBufs(nlast'.arg) :
              IF Leaver(nlast'.arg) = nnet.nick
              THEN /\ ~nnet'.bufs[targ].joined
                   /\ \E i \in 1..Len(nlast'.msgs) : nlast'.msgs[i] = StateMsg(targ, FALSE)
              ELSE /\ nnet'.bufs[targ].joined = JoinedBefore(targ)
                   /\ nnet'.bufs[targ].users = UsersBefore(targ) \ {Leaver(nlast'.arg)}
                   /\ \A i \in 1..Len(nlast'.msgs) :
                         nlast'.msgs[i] \notin {StateMsg(targ, TRUE), StateMsg(targ, FALSE)}]_vars

\* C23: a QUIT or NICK from a user appends one Quit or Nick line of that user
\* to each buffer whose presence set held the user's nick and takes the nick
\* out of that set (putting the new nick in, for a NICK); every other buffer
\* is left as it was, and no buffer is created or dropped.
C23_QuitNickFrame ==
    [][(IsHandleMsgStep /\ nlast'.arg.command \in {"QUIT", "NICK"}) =>
          /\ DOMAIN nnet'.bufs = DOMAIN nnet.bufs
          /\ \A targ \in DOMAIN nnet.bufs :
                LET old == nnet.bufs[targ]
                    new == nnet'.bufs[targ]
                    who == SenderNick(nlast'.arg)
                IN  IF who \in old.users
                    THEN /\ Len(new.front) = Len(old.front) + 1
                         /\ SubSeq(new.front, 1, Len(old.front)) = old.front
                         /\ new.front[Len(new.front)].data.user.nick = who
                         /\ new.front[Len(new.front)].data.t =
                               (IF nlast'.arg.command = "QUIT" THEN "Quit" ELSE "Nick")
                         /\ new.users =
                               (IF nlast'.arg.command = "QUIT" THEN old.users \ {who}
                                ELSE (old.users \ {who}) \cup {nlast'.arg.args[1]})
                    ELSE new = old]_vars

\* a has quit: #x, where a was, has its Quit line, and #y, where a was not,
\* has none
C23_Witness ==
    /\ nlast.op = "handle_msg" /\ nlast.arg = N_QuitA /\ ncount = 1
    /\ TargChannel(S_x) \in DOMAIN nnet.bufs /\ TargChannel(S_y) \in DOMAIN nnet.bufs
    /\ Len(nnet.bufs[TargChannel(S_x)].front) = 2
    /\ nnet.bufs[TargChannel(S_x)].front[2].data.t = "Quit"
    /\ Len(nnet.bufs[TargChannel(S_y)].front) = 1
    /\ nnet.bufs[TargChannel(S_y)].users = {S_bo}

\* the positions in the messages of the last call of the buffer messages
\* that carry a Nick line
NickLineAt(msgs) ==
    {i \in 1..Len(msgs) :
        /\ msgs[i].t = "BufMsg" /\ msgs[i].msg.t = "NewLines"
        /\ \E k \in 1..Len(msgs[i].msg.lines) : msgs[i].msg.lines[k].data.t = "Nick"}

\* C24: the current nick of a network changes only when RPL_MYINFO is
\* handled, to its first argument, and when a NICK from the current nick is
\* handled, to the new nick, in which case NickChanged is sent before the
\* Nick line of any buffer; no other call, disconnect and register_conn
\* included, changes it.
C24_NickChanges ==
    [][/\ nnet'.nick # nnet.nick =>
             /\ IsHandleMsgStep
             /\ \/ nlast'.arg.command = "RPL_MYINFO"
                \/ nlast'.arg.command = "NICK" /\ SenderNick(nlast'.arg) = nnet.nick
       /\ (IsHandleMsgStep /\ nlast'.arg.command = "RPL_MYINFO") =>
             nnet'.nick = nlast'.arg.args[1]
       /\ (IsHandleMsgStep /\ nlast'.arg.command = "NICK"
             /\ SenderNick(nlast'.arg) = nnet.nick) =>
             /\ nnet'.nick = nlast'.arg.args[1]
             /\ \E i \in 1..Len(nlast'.msgs) :
                   /\ nlast'.msgs[i] = [t |-> "NickChanged", nick |-> nlast'.arg.args[1]]
                   /\ \A k \in NickLineAt(nlast'.msgs) : i < k]_vars

\* the own nick has changed from bo to c with a Nick line written to a
\* buffer, and the connection has ended since
C24_Witness ==
    /\ nnet.nick = S_c
    /\ nlast.op = "disconnect"
    /\ \E targ \in DOMAIN nnet.bufs :
          \E i \in 1..Len(nnet.bufs[targ].front) :
              /\ nnet.bufs[targ].front[i].data.t = "Nick"
              /\ nnet.bufs[targ].front[i].data.user.nick = S_bo

\* the step is a call of send_chat_msg
IsSendChatStep == ncount' = ncount + 1 /\ nlast'.op = "send_chat_msg"

\* C25: send_chat_msg answers Unavailable when the network has no buffer
\* for the target; otherwise BadTarget when the target is the buffer of the
\* network itself; otherwise Disconnected when no sender is registered or
\* its receiving end has been dropped; and Ok otherwise.
C25_SendChatResult ==
    [][IsSendChatStep =>
          nlast'.res =
              IF nlast'.arg.targ \notin DOMAIN nnet.bufs THEN "Unavail"
              ELSE IF nlast'.arg.targ = TargNetwork THEN "BadTarget"
              ELSE IF ~nnet.conn \/ ~nalive THEN "Disconnected"
              ELSE "Ok"]_vars

\* the lines in the fronts of the buffers of the harness network
NetFronts(net) == [targ \in DOMAIN net.bufs |-> net.bufs[targ].front]
\* the positions of the NewLines messages among the messages of a call
NewLinesAt(msgs) ==
    {i \in 1..Len(msgs) : msgs[i].t = "BufMsg" /\ msgs[i].msg.t = "NewLines"}

\* C26: a send_chat_msg that returns Ok has queued exactly one message for
\* the IRC connection, addressed to the target, and appended exactly one
\* line to the target buffer and to no other, from the current nick, of the
\* kind asked for and with the text sent, and has emitted one NewLines, with
\* that line; one that returns an error has appended no line to any buffer
\* and emitted no NewLines.
C26_SendChatEcho ==
    [][IsSendChatStep =>
          LET targ == nlast'.arg.targ
          IN  /\ nlast'.res = "Ok" =>
                    /\ Len(nq') = Len(nq) + 1
                    /\ SubSeq(nq', 1, Len(nq)) = nq
                    /\ nq'[Len(nq')].args = << targ.name >>
                    /\ nq'[Len(nq')].command =
                          (IF nlast'.arg.kind = "Notice" THEN "NOTICE" ELSE "PRIVMSG")
                    /\ NetFronts(nnet') =
                          [NetFronts(nnet) EXCEPT ![targ] =
                              Append(@, [time |-> nnet'.bufs[targ].front[Len(@) + 1].time,
                                         data |-> [t |-> "Message", kind |-> nlast'.arg.kind,
                                                   from |-> nnet.nick,
                                                   msg |-> nlast'.arg.msg]])]
                    /\ Cardinality(NewLinesAt(nlast'.msgs)) = 1
                    /\ \A i \in NewLinesAt(nlast'.msgs) :
                          /\ nlast'.msgs[i].targ = targ
                          /\ nlast'.msgs[i].msg.lines =
                                << nnet'.bufs[targ].front[Len(nnet'.bufs[targ].front)] >>
              /\ nlast'.res \in {"Unavail", "BadTarget", "Disconnected"} =>
                    /\ NetFronts(nnet') = NetFronts(nnet)
                    /\ NewLinesAt(nlast'.msgs) = {}]_vars

\* an action has been sent to #x and echoed into it, and a notice to a user
\* without a buffer has been refused
C26_Witness ==
    /\ nlast.op = "send_chat_msg" /\ nlast.res = "Unavail" /\ nlast.arg.kind = "Notice"
    /\ Len(nq) = 1 /\ nq[1].body = Some(<< Delim >> \o S_ACTION \o << " " >> \o S_hi \o << Delim >>)
    /\ \E i \in 1..Len(nnet.bufs[TargChannel(S_x)].front) :
          nnet.bufs[TargChannel(S_x)].front[i].data =
              [t |-> "Message", kind |-> "Action", from |-> S_bo, msg |-> S_hi]

----------------------------------------------------------------------------
(* Claims about the requests of clients (SpecReq) *)

\* the connection of network nid can take a message: an IrcSender is
\* registered and its receiving end is alive
CanSend(nid) == nid \in NetIds /\ nets[nid].conn /\ conn[nid] # "None"

\* the request req to network nid cannot be carried out in this state
ReqFails(nid, req) ==
    \/ ~CanSend(nid)
    \/ /\ req.t = "BufMsg"
       /\ \/ req.targ \notin DOMAIN nets[nid].bufs
          \/ req.targ.t = "Network"

\* the Status messages of a sequence of messages
StatusIn(msgs) == SelectSeq(msgs, LAMBDA m : m.t = "Status")

\* C27: when a client's send-message, join-channel, part-channel or
\* change-nick request fails (the target buffer or the network does not
\* exist, the target is the network buffer, or there is no live connection),
\* exactly one Status message is written to the requesting client and none
\* to any other client, the client stays Connected and the core goes on
C27_FailedRequestStatus ==
    [][\A c \in ClientIds, nid \in ReqNets, req \in Requests :
          ClientRequest(c, nid, req) /\ ReqFails(nid, req) =>
             /\ Len(wire'[c]) = Len(wire[c]) + 1
             /\ wire'[c][Len(wire'[c])].t = "Status"
             /\ \A d \in ClientIds \ {c} : wire'[d] = wire[d]
             /\ \A d \in ClientIds : Len(StatusIn(chan'[d])) = 0
             /\ cl'[c].st = "Connected"
             /\ ~crashed']_vars

----------------------------------------------------------------------------
(* Claims about push_line when the disk fails (SpecDisk) *)

\* the step is a call of push_line
IsDiskPushStep == lnow'.tick # lnow.tick

\* the number of lines in the day files of a log directory
RECURSIVE FileLines(_, _)
FileLines(files, days) ==
    IF days = {} THEN 0
    ELSE LET d == CHOOSE x \in days : TRUE
         IN  Len(files[d]) + FileLines(files, days \ {d})

\* C28: when persisting the line fails, at creating the directory of the
\* day, at opening the file of the day or at writing the line, push_line
\* still appends the line to front and sends one NewLines with it, the
\* process does not abort, and the line is not written later
C28_DiskFailureTolerated ==
    [][IsDiskPushStep /\ lgot'.io # "ok" =>
          /\ lbuf'.front = Append(lbuf.front, [time |-> lnow, data |-> LogData])
          /\ lgot'.msgs = << [t |-> "NewLines",
                               lines |-> << [time |-> lnow, data |-> LogData] >>] >>
          /\ ~lgot'.panic
          /\ FileLines(lbuf'.log.files, DOMAIN lbuf'.log.files)
                = FileLines(lbuf.log.files, DOMAIN lbuf.log.files)]_vars

----------------------------------------------------------------------------
(* Claims about the way of a message to the IRC transport (SpecSend) *)

\* the messages written to the transport that were handed to send
Written == SelectSeq(nout, LAMBDA m : m \in SendMsgs)

\* C29: every message IrcNetwork::send returned Ok for while the connection
\* was registered is eventually written to the IRC transport unless the
\* connection ends, and the messages are written in the order in which they
\* were accepted
C29_AcceptedIsWritten ==
    /\ [](IsPrefix(Written, nacc))
    /\ \A i \in 1..MaxSends :
          (Len(nacc) >= i) ~> (~nalive \/ (Len(Written) >= i /\ Written[i] = nacc[i]))

\* two different messages were accepted and both are written to the
\* transport of the live connection, which has answered a PING as well
C29_Witness ==
    /\ nalive
    /\ Len(nacc) >= 2
    /\ nacc[1] # nacc[2]
    /\ Written = nacc
    /\ \E i \in 1..Len(nout) : nout[i].command = "PONG"

----------------------------------------------------------------------------
(* Claims about wrapped update handles (SpecWrap) *)

\* f(g(m)) for the closures ws = << g, ..., f >>: the closure of the outermost
\* handle applied to what the handles inside it make of m
RECURSIVE Nested(_, _)
Nested(ws, m) ==
    IF Len(ws) = 0 THEN m
    ELSE ApplyWrap(ws[Len(ws)], Nested(SubSeq(ws, 1, Len(ws) - 1), m))

\* the arguments of the calls of op made on the innermost handle, in order
CallsOf(op) ==
    LET c == SelectSeq(wcalls, LAMBDA x : x.op = op)
    IN  [i \in 1..Len(c) |-> c[i].v]

\* C30: the base handle holds, for each message sent through the wrapped
\* handles, exactly one message, the closures applied from the innermost to the
\* outermost (f(g(m)) for g inside f), in the order of the sends; and it
\* holds every alert posted, unchanged, in the order posted
C30_WrapComposes ==
    /\ wu.msgs = [i \in 1..Len(CallsOf("send_msg")) |-> Nested(wws, CallsOf("send_msg")[i])]
    /\ wu.alerts = CallsOf("post_alert")

\* two different messages and an alert have gone through two handles with
\* different closures
C30_Witness ==
    /\ Len(wws) = 2
    /\ wws[1].w # wws[2].w
    /\ Len(wu.msgs) = 2
    /\ wu.msgs[1] # wu.msgs[2]
    /\ Len(wu.alerts) = 1

----------------------------------------------------------------------------
(* Claims about the buffers of a network (SpecReq) *)

\* the buffer target route_message routes msg to, if any
RoutedBufTarget(msg, nick) ==
    LET r == RouteMessage(msg, nick)
    IN  CASE r.t = "Channel" -> Some(TargChannel(r.chan))
          [] r.t = "Private" -> Some(TargPrivate(r.user.nick))
          [] r.t = "NetBuffer" -> Some(TargNetwork)
          [] OTHER -> None

\* the buffer targets of a network only grow
BufsOnlyGrow ==
    \A n \in NetIds : DOMAIN nets[n].bufs \subseteq DOMAIN nets'[n].bufs

\* after a message routed to a buffer target is handled, the buffer exists
BufAfterInbound ==
    \A m \in ReqMsgs :
        (IrcRecv("n1", m) /\ ~crashed'
            /\ IsSome(RoutedBufTarget(m, nets["n1"].nick)))
        => Unwrap(RoutedBufTarget(m, nets["n1"].nick)) \in DOMAIN nets'["n1"].bufs

\* after a client's JoinChan that was sent, the buffer of the channel exists
BufAfterJoin ==
    \A c \in ClientIds :
        (ClientRequest(c, "n1", R_Join) /\ CanSend("n1"))
        => TargChannel(R_Join.chan) \in DOMAIN nets'["n1"].bufs

\* C31: after an inbound event routed to a buffer target, or a client's
\* explicit join of a channel, the network has a buffer for that target, and
\* no step removes a buffer from a network
C31_BufferOnFirstReference ==
    [][BufsOnlyGrow /\ BufAfterInbound /\ BufAfterJoin]_vars

----------------------------------------------------------------------------
(* Claims about the scrollback cursors (SpecCursor) *)

\* the step serves a FetchLogs request, and the request it serves
IsFetchStep == Len(fetches') = Len(fetches) + 1
LastFetch == fetches'[Len(fetches')]

\* the cursor a client with the entries bufs has for the buffer targ of net:
\* the FetchLogs arm takes front_len() for a buffer without an entry
EffCursor(bufs, net, targ) ==
    IF targ \in DOMAIN bufs THEN bufs[targ] ELSE FrontLen(net.bufs[targ])

C33_CursorFrame ==
    [][IsFetchStep =>
          /\ \A d \in ClientIds \ {LastFetch.c} : cl'[d] = cl[d]
          /\ \A n \in NetIds : \A t \in DOMAIN nets[n].bufs :
                << n, t >> # << LastFetch.nid, LastFetch.targ >> =>
                   EffCursor(cl'[LastFetch.c].bufs, nets'[n], t)
                     = EffCursor(cl[LastFetch.c].bufs, nets[n], t)]_vars

----------------------------------------------------------------------------
(* Claims about the authentication of clients (SpecAuth) *)

\* the Authenticate message that names the user and holds its password
GoodAuth == [t |-> "Authenticate", uid |-> TheUser, pass |-> UserCfg.password]

\* what a client that has not authenticated has of the core: AuthErr
\* messages only, an empty channel and no place in the fan-out
Unattached(c) ==
    /\ \A i \in 1..Len(wire[c]) : wire[c][i].t = "AuthErr"
    /\ chan[c] = << >>
    /\ c \notin Range(uclients)

\* C34: a client is put in the fan-out and sent AuthOk and then the network
\* summary by an Authenticate with the user's password and by nothing else;
\* until then it has been sent nothing but AuthErr; a wrong password is
\* answered by AuthErr and the client stays unauthenticated; any other
\* message closes the connection
C34_AuthGate ==
    /\ [](\A c \in ClientIds : cl[c].st \in {"None", "Authing"} => Unattached(c))
    /\ [][\A c \in ClientIds :
            cl[c].st = "Authing" =>
              /\ cl'[c].st = "Connected" => ClientMsgRecvAuthing(c, GoodAuth)
              /\ \A msg \in AuthMsgs :
                    ClientMsgRecvAuthing(c, msg) =>
                      IF msg = GoodAuth
                      THEN /\ cl'[c].st = "Connected"
                           /\ c \in Range(uclients')
                           /\ Len(wire'[c]) = Len(wire[c]) + 2
                           /\ SubSeq(wire'[c], 1, Len(wire[c])) = wire[c]
                           /\ wire'[c][Len(wire[c]) + 1].t = "AuthOk"
                           /\ wire'[c][Len(wire[c]) + 2].t = "Networks"
                      ELSE IF msg.t = "Authenticate" /\ msg.uid = TheUser
                      THEN /\ cl'[c].st = "Authing"
                           /\ wire'[c] = Append(wire[c], [t |-> "AuthErr"])
                           /\ uclients' = uclients
                      ELSE /\ cl'[c].st = "Closed"
                           /\ wire'[c] = wire[c]
                           /\ uclients' = uclients]_vars

\* a client that failed with a wrong password, then authenticated, while
\* another client, still unauthenticated, has been sent nothing of the
\* lines pushed meanwhile
C34_Witness ==
    \E c, d \in ClientIds :
        /\ cl[c].st = "Connected"
        /\ Len(wire[c]) >= 3
        /\ wire[c][1].t = "AuthErr"
        /\ wire[c][2].t = "AuthOk"
        /\ \E i \in 1..Len(wire[c]) : wire[c][i].t = "NetMsg"
        /\ cl[d].st = "Authing"
        /\ wire[d] = << >>

----------------------------------------------------------------------------
(* Claims about CTCP message strings (SpecCtcp) *)

\* C35: parsing the string made of a delimiter, a tag, arguments each after
\* one space and a delimiter yields that tag and those arguments in order,
\* and formatting the parsed message between delimiters yields the string
C35_CtcpRoundTrip ==
    /\ IsSome(cmsg) =>
          /\ Unwrap(cmsg).ok
          /\ Unwrap(cmsg).tag = cin.tag
          /\ Unwrap(cmsg).args = cin.args
    /\ IsSome(cfmt) => Unwrap(cfmt) = CtcpString(cin)

----------------------------------------------------------------------------
(* Claims about sending to a buffer that is not joined (SpecNet) *)

\* C36: send_chat_msg to a channel or private buffer that exists and is not
\* joined returns Unavail, hands no message to the connection and pushes no
\* line (stated for a network that has its nick and a live connection, where
\* no other error is due)
C36_UnjoinedUnavailable ==
    [][(/\ IsSendChatStep
        /\ nnet.conn /\ nalive
        /\ Len(nnet.nick) > 0
        /\ nlast'.arg.targ \in DOMAIN nnet.bufs
        /\ nlast'.arg.targ.t # "Network"
        /\ ~nnet.bufs[nlast'.arg.targ].joined) =>
          /\ nlast'.res = "Unavail"
          /\ nq' = nq
          /\ NetFronts(nnet') = NetFronts(nnet)
          /\ NewLinesAt(nlast'.msgs) = {}]_vars

----------------------------------------------------------------------------
(* Claims about CTCP queries and notices received by a network (SpecQuery) *)

\* the lines of the network buffer of a network
NetBufFront(net) ==
    IF TargNetwork \in DOMAIN net.bufs THEN net.bufs[TargNetwork].front ELSE << >>

\* C37: a CTCP VERSION query received never aborts the core, whether or not
\* the network buffer exists; one status line is appended to the network
\* buffer and one NOTICE VERSION reply to the sender is handed to the
\* connection
C37_VersionQuery ==
    [][IrcRecv("n1", Q_Version) =>
          /\ ~crashed'
          /\ Len(NetBufFront(nets'["n1"])) = Len(NetBufFront(nets["n1"])) + 1
          /\ NetBufFront(nets'["n1"])[Len(NetBufFront(nets'["n1"]))].data =
                [t |-> "Message", kind |-> "Status", from |-> S_a, msg |-> S_VersionRequest]
          /\ ircq'["n1"] =
                Append(ircq["n1"], Message(None, "NOTICE", << S_a >>, Some(B_VersionReply)))]_vars

\* C38: once the connection is Connected, no NOTICE received, plain or CTCP,
\* makes the core hand a message to the connection or write one to it
C38_NoticeUnanswered ==
    [][\A m \in QueryMsgs :
          (conn["n1"] = "Connected" /\ m.command = "NOTICE" /\ IrcRecv("n1", m)) =>
             /\ ircq' = ircq
             /\ ircOut' = ircOut]_vars

----------------------------------------------------------------------------
(* Claims about pings while the nick is unset (Spec) *)

\* C39: while the nick of the network is empty (no RPL_MYINFO handled yet),
\* no PRIVMSG to a channel posts a ping alert
C39_NoPingWithoutNick ==
    [][\A m \in FanMsgs :
          (/\ Len(nets["n1"].nick) = 0
           /\ m.command = "PRIVMSG"
           /\ IrcRecv("n1", m)) =>
             \A a \in Range(lastExec'.posted) : a.kind # "ping"]_vars

----------------------------------------------------------------------------
(* Claims about the announcement of buffers (SpecAnn) *)

\* the messages a client has been sent or is about to be sent, in order
Stream(c) == wire[c] \o chan[c]

\* m announces the buffer targ of the network nid
Announces(m, nid, targ) ==
    /\ m.t = "NetMsg" /\ m.nid = nid /\ m.msg.t = "Buffers"
    /\ \E k \in 1..Len(m.msg.bufs) : m.msg.bufs[k].id = targ

\* m is a NewLines or State event of the buffer targ of the network nid
Concerns(m, nid, targ) ==
    /\ m.t = "NetMsg" /\ m.nid = nid /\ m.msg.t = "BufMsg" /\ m.msg.targ = targ
    /\ m.msg.msg.t \in {"NewLines", "State"}

\* the places of a sequence of messages where targ of nid is announced
AnnouncedAt(msgs, nid, targ) == {i \in 1..Len(msgs) : Announces(msgs[i], nid, targ)}

\* the targets a message stream may speak of
AnnTargets == {TargChannel(S_x), TargNetwork, TargPrivate(S_a)}

\* C40: a step announces a buffer to the attached clients once if it creates
\* the buffer and not at all otherwise; and in the stream of a client that
\* was attached when the buffer was created the announcement comes before
\* every NewLines and State event of the buffer
C40_AnnouncedOnceFirst ==
    /\ [](\A c \in ClientIds : \A n \in FanNets : \A targ \in AnnTargets :
             \A i \in 1..Len(Stream(c)) :
                 Concerns(Stream(c)[i], n, targ) =>
                    \/ \E j \in 1..(i - 1) : Announces(Stream(c)[j], n, targ)
                    \/ targ \in DOMAIN attachedAt[c][n])
    /\ [][\A c \in Range(uclients) : \A n \in FanNets : \A targ \in AnnTargets :
            (cl[c].st = "Connected" /\ ~crashed') =>
               Cardinality(AnnouncedAt(Stream(c)', n, targ))
                 = Cardinality(AnnouncedAt(Stream(c), n, targ))
                   + (IF targ \in DOMAIN nets'[n].bufs /\ targ \notin DOMAIN nets[n].bufs
                      THEN 1 ELSE 0)]_vars

\* one client has been told of #x and then sent its State and NewLines,
\* another, attached after #x was created, has been sent lines of #x without
\* an announcement
C40_Witness ==
    \E c, d \in ClientIds :
        /\ \E i, j, k \in 1..Len(wire[c]) :
              /\ i < j /\ i < k
              /\ Announces(wire[c][i], "n1", TargChannel(S_x))
              /\ Concerns(wire[c][j], "n1", TargChannel(S_x)) /\ wire[c][j].msg.msg.t = "State"
              /\ Concerns(wire[c][k], "n1", TargChannel(S_x)) /\ wire[c][k].msg.msg.t = "NewLines"
        /\ AnnouncedAt(wire[d], "n1", TargChannel(S_x)) = {}
        /\ \E k \in 1..Len(wire[d]) : Concerns(wire[d][k], "n1", TargChannel(S_x))

====
